---- MODULE Spec2Model ----
(***************************************************************************)
(* State-machine model of the <liquid-section-renderer> custom element     *)
(* (src/src/liquid-section-renderer.js): trigger discovery and binding,    *)
(* the per-instance debounce timer, the activation handler with its        *)
(* fetch/timeout race, the DOM patcher and the loading toggle.             *)
(*                                                                         *)
(* JavaScript runs to completion between suspension points, so one action  *)
(* is one task of the event loop: a lifecycle callback, a DOM event        *)
(* listener, a timer callback, or the continuation of an awaiting          *)
(* activation.                                                             *)
(***************************************************************************)
EXTENDS Naturals, Sequences, FiniteSets, Bags, TLC

\* ------------------------------------------------------------------------
\* Bounds of the model
\* ------------------------------------------------------------------------

\* activations (calls of _handleTrigger) in one behaviour
MaxActs == 2

\* the debounce attribute of the instance, in clock ticks
DebounceTime == 2

\* descriptors in a drawn `updates` list
MaxBatch == 2

\* ------------------------------------------------------------------------
\* Values
\* ------------------------------------------------------------------------

\* JavaScript null, undefined (an absent object field) and a non-string value
NULL == "<null>"
UNDEF == "<undefined>"
NUMBER == "<number>"

IsString(v) == v \notin {NULL, UNDEF, NUMBER}

\* JavaScript truthiness of a string-or-null value
Truthy(v) == v \notin {NULL, UNDEF, ""}

\* `v || dflt`
OrElse(v, dflt) == IF Truthy(v) THEN v ELSE dflt

\* the event names of this._events
EvStarted == "liquid-render-started"
EvEnded == "liquid-render-ended"
EvError == "liquid-render-error"
EvInit == "liquid-render-init"
EvDestroy == "liquid-render-destroying"

Range(xs) == {xs[i] : i \in 1..Len(xs)}

\* ------------------------------------------------------------------------
\* The page: trigger elements and their attributes
\* ------------------------------------------------------------------------

\* An update descriptor as written in the JSON of an `updates` attribute.
\* `isa` is the JSON type of the array item: "object", "null" or "number".
Desc(s, d, m, q) ==
  [isa |-> "object", section |-> s, destination |-> d, updateMode |-> m, query |-> q]

\* array items that are no objects: null, and a number
JsonNull ==
  [isa |-> "null", section |-> UNDEF, destination |-> UNDEF, updateMode |-> UNDEF, query |-> UNDEF]
JsonNumber ==
  [isa |-> "number", section |-> UNDEF, destination |-> UNDEF, updateMode |-> UNDEF, query |-> UNDEF]

\* The `updates` attribute is modelled by what JSON.parse makes of it:
\*   NoAttr        the attribute is absent (getAttribute gives null)
\*   Malformed     JSON.parse throws
\*   NonArray      JSON.parse gives a value that is not an array
\*   JsonArray(xs) JSON.parse gives the array xs of descriptors
NoAttr == [kind |-> "absent", items |-> <<>>]
Malformed == [kind |-> "malformed", items |-> <<>>]
NonArray == [kind |-> "nonarray", items |-> <<>>]
JsonArray(xs) == [kind |-> "array", items |-> xs]

\* The attributes of a trigger element that the component reads.
\*   marker   which of trigger / trigger-init / trigger-intersect it carries
\*   closest  the id of the nearest ancestor with class shopify-section, or NULL
TriggerAttrs(marker, upd, s, d, m, q, closest, once) ==
  [marker |-> marker, updates |-> upd, section |-> s, destination |-> d,
   mode |-> m, query |-> q, closest |-> closest, intersectOnce |-> once]

\* The trigger elements of the modelled pages.
\*   btnA   <button trigger section="s1" destination="#d1">
\*   btnB   <button trigger section="s2" destination="#gone">, #gone not in the page
\*   btnM   <button trigger updates='[{"section":"s1","destination":"#d1"},
\*                                   {"section":"s2","destination":"#d2"}]'
\*                  update-mode="replace">          (the README's example)
\*   lazy   <div trigger-intersect> with neither section nor destination and
\*          no enclosing shopify-section
\*   auto   <div trigger-init section="s2" destination="#d2" update-mode="append">
\*   btnE   <button trigger updates='[{"section":"","destination":"#d1",
\*                                    "updateMode":"replace"}]'>
\*   near   <button trigger> with neither section nor destination, inside
\*          <div id="shopify-section-sec0" class="shopify-section">
\*   btnO   <button trigger section="s1" destination="#out">, #out outside the
\*          instance's subtree
\*   pager  <a trigger section="s1" destination="#d1">, itself outside the
\*          instance's subtree
\*   malA   <button trigger updates='[{' section="s1" destination="#d1">
\*   malN   <button trigger updates='[{'>, no enclosing shopify-section
\*   nonA   <button trigger updates='{"section":"s1"}' section="s2"
\*                  destination="#d2" update-mode="append">
\*   nullA  <button trigger updates='[null]' section="s1" destination="#d1">
\*   emptyU <button trigger updates='[]' section="s2" destination="#d2">
\*   halfS  <button trigger section="s1"> inside #shopify-section-sec0
\*   halfD  <button trigger destination="#d1"> inside #shopify-section-sec0
\*   halfN  <button trigger section="s1">, no enclosing shopify-section
\*   dup    <button trigger updates='[{"section":"s2","destination":"#d2"},
\*                                   {"section":"s1","destination":"#d1"},
\*                                   {"section":"s2","destination":"#d1",
\*                                    "updateMode":"append"}]'>
\*   btnR   <button trigger section="s1" destination="#d1" render-url="...">
\*   lazyS  <div trigger-intersect section="s1" destination="#d1">
\*   btnW   <button trigger section=" s1" destination="#d1">
\*   autoB  <div trigger-init section="s1" destination="#d1">
\*   lazyR  <div trigger-intersect intersect-once="false" section="s1"
\*               destination="#d1" update-mode="append">
\*   lazy1  <div trigger-intersect intersect-once="1" section="s1"
\*               destination="#d1">
\*   lazyT  <div trigger-intersect intersect-once="TRUE" section="s2"
\*               destination="#d2">
\*   batch  <button trigger updates='...'>: the descriptors of its `updates`
\*          attribute are drawn from Batches when its activation is set up
Attrs(t) ==
  CASE t = "btnA" -> TriggerAttrs("trigger", NoAttr, "s1", "#d1", NULL, NULL, NULL, NULL)
    [] t = "btnB" -> TriggerAttrs("trigger", NoAttr, "s2", "#gone", NULL, NULL, NULL, NULL)
    [] t = "btnM" -> TriggerAttrs("trigger",
                        JsonArray(<<Desc("s1", "#d1", UNDEF, UNDEF),
                                    Desc("s2", "#d2", UNDEF, UNDEF)>>),
                        NULL, NULL, "replace", NULL, NULL, NULL)
    [] t = "lazy" -> TriggerAttrs("trigger-intersect", NoAttr, NULL, NULL, NULL, NULL, NULL, NULL)
    [] t = "auto" -> TriggerAttrs("trigger-init", NoAttr, "s2", "#d2", "append", NULL, NULL, NULL)
    [] t = "btnE" -> TriggerAttrs("trigger",
                        JsonArray(<<Desc("", "#d1", "replace", UNDEF)>>),
                        NULL, NULL, NULL, NULL, NULL, NULL)
    [] t = "near" -> TriggerAttrs("trigger", NoAttr, NULL, NULL, NULL, NULL, "sec0", NULL)
    [] t = "btnO" -> TriggerAttrs("trigger", NoAttr, "s1", "#out", NULL, NULL, NULL, NULL)
    [] t = "pager" -> TriggerAttrs("trigger", NoAttr, "s1", "#d1", NULL, NULL, NULL, NULL)
    [] t = "batch" -> TriggerAttrs("trigger", NoAttr, NULL, NULL, NULL, NULL, NULL, NULL)
    [] t = "malA" -> TriggerAttrs("trigger", Malformed, "s1", "#d1", NULL, NULL, NULL, NULL)
    [] t = "malN" -> TriggerAttrs("trigger", Malformed, NULL, NULL, NULL, NULL, NULL, NULL)
    [] t = "nonA" -> TriggerAttrs("trigger", NonArray, "s2", "#d2", "append", NULL, NULL, NULL)
    [] t = "nullA" -> TriggerAttrs("trigger", JsonArray(<<JsonNull>>),
                         "s1", "#d1", NULL, NULL, NULL, NULL)
    [] t = "emptyU" -> TriggerAttrs("trigger", JsonArray(<<>>),
                          "s2", "#d2", NULL, NULL, NULL, NULL)
    [] t = "halfS" -> TriggerAttrs("trigger", NoAttr, "s1", NULL, NULL, NULL, "sec0", NULL)
    [] t = "halfD" -> TriggerAttrs("trigger", NoAttr, NULL, "#d1", NULL, NULL, "sec0", NULL)
    [] t = "halfN" -> TriggerAttrs("trigger", NoAttr, "s1", NULL, NULL, NULL, NULL, NULL)
    [] t = "dup" -> TriggerAttrs("trigger",
                       JsonArray(<<Desc("s2", "#d2", UNDEF, UNDEF),
                                   Desc("s1", "#d1", UNDEF, UNDEF),
                                   Desc("s2", "#d1", "append", UNDEF)>>),
                       NULL, NULL, NULL, NULL, NULL, NULL)
    [] t = "btnR" -> TriggerAttrs("trigger", NoAttr, "s1", "#d1", NULL, NULL, NULL, NULL)
    [] t = "btnW" -> TriggerAttrs("trigger", NoAttr, " s1", "#d1", NULL, NULL, NULL, NULL)
    [] t = "lazyR" -> TriggerAttrs("trigger-intersect", NoAttr,
                         "s1", "#d1", "append", NULL, NULL, "false")
    [] t = "lazy1" -> TriggerAttrs("trigger-intersect", NoAttr,
                         "s1", "#d1", NULL, NULL, NULL, "1")
    [] t = "lazyT" -> TriggerAttrs("trigger-intersect", NoAttr,
                         "s2", "#d2", NULL, NULL, NULL, "TRUE")
    [] t = "autoB" -> TriggerAttrs("trigger-init", NoAttr,
                         "s1", "#d1", NULL, NULL, NULL, NULL)
    [] t = "lazyS" -> TriggerAttrs("trigger-intersect", NoAttr,
                         "s1", "#d1", NULL, NULL, NULL, NULL)

\* The pages an instance is constructed in: the trigger elements of the
\* document, in document order.
Pages ==
  { <<>>,
    <<"btnA", "btnB">>,
    <<"btnM", "lazy">>,
    <<"auto", "btnA">> }

\* Pages that exercise the scoping rule and the validation pass.
ConfigPages ==
  { <<"btnE">>,
    <<"near", "btnO">>,
    <<"pager", "lazy">> }

\* Pages that exercise the resolution of a trigger's descriptors and the
\* request URL.
ResolvePages ==
  { <<"malA", "malN">>,
    <<"nonA", "nullA">>,
    <<"halfS", "halfD">>,
    <<"halfN", "emptyU">>,
    <<"dup", "btnR">>,
    <<"lazyS", "near">>,
    <<"btnW">> }

\* Pages that exercise the intersect-once attribute.
ObservePages ==
  { <<"btnA", "lazyR">>,
    <<"lazy1", "lazyT">> }

\* A page with two explicit-init triggers and a button.
InitPages ==
  { <<"auto", "btnA", "autoB">> }

AllTriggers ==
  {"btnA", "btnB", "btnM", "lazy", "auto", "btnE", "near", "btnO", "pager", "batch",
   "malA", "malN", "nonA", "nullA", "emptyU", "halfS", "halfD", "halfN", "dup",
   "btnR", "lazyS", "btnW", "lazyR", "lazy1", "lazyT",
   "autoB"}

\* The trigger elements that lie outside the instance's subtree.
OutsideTriggers == {"pager"}

\* The destination elements of the page, all inside the instance's subtree.
DestInside == {"#d1", "#d2"}

\* Elements outside the instance's subtree: #out, and the shopify-section
\* element that encloses the instance.
DestOutside == {"#out", "#shopify-section-sec0"}

\* A child node of a destination: the node it held before any patch, an
\* element taken from the fragment fetched by activation `act`, or the text
\* node "null".
Node(act, sec, part) == [act |-> act, sec |-> sec, part |-> part]
OldNode == Node(0, "old", "root")
TextNull == Node(0, "#text", "null")

\* querySelector found nothing
NoNode == Node(0, "none", "none")

\* The section identifiers the server knows.
Sections == {"s1", "s2", "sec0"}

\* What the fragment of one section holds: no element with the id
\* shopify-section-<section> ("absent", also when the key is missing from the
\* response), that element ("plain"), or that element with a descendant that
\* matches the descriptor's query ("withSub").
FragKinds == {"absent", "plain", "withSub"}

\* The responses of the section rendering endpoint to a request for the
\* sections `secs`: a fragment for each requested section the server knows.
Responses(secs) == [Range(secs) \cap Sections -> FragKinds]

FragOf(resp, s) == IF s \in DOMAIN resp THEN resp[s] ELSE "absent"

\* ------------------------------------------------------------------------
\* Update Resolver
\* ------------------------------------------------------------------------

\* (mutant) duplicates are kept
Dedup_Identity(xs) == xs

\* [...new Set(xs)]: duplicates removed, first-seen order kept
RECURSIVE Dedup(_)
Dedup(xs) ==
  IF xs = <<>> THEN <<>>
  ELSE LET init == Dedup(SubSeq(xs, 1, Len(xs) - 1))
           last == xs[Len(xs)]
       IN  IF \E i \in 1..Len(init) : init[i] = last THEN init ELSE Append(init, last)

\* (mutant) a failure to parse leaves a descriptor that is no object, which
\* the validation pass rejects
GetUpdatesArray_Fatal(attrs) ==
  LET attr == attrs.updates
  IN  IF attr.kind = "absent" THEN [sections |-> <<>>, updates |-> <<>>]
      ELSE IF attr.kind # "array" \/ \E i \in 1..Len(attr.items) : attr.items[i].isa = "null"
      THEN [sections |-> <<>>, updates |-> <<JsonNull>>]
      ELSE [sections |-> Dedup([i \in 1..Len(attr.items) |-> attr.items[i].section]),
            updates |-> attr.items]

\* _getUpdatesArray: the descriptors and sections of the `updates` attribute;
\* any failure (absent, malformed, not an array, an item that is null) gives
\* the empty result.
GetUpdatesArray(attrs) ==
  LET attr == attrs.updates
      empty == [sections |-> <<>>, updates |-> <<>>]
  IN  IF attr.kind # "array" THEN empty
      ELSE IF \E i \in 1..Len(attr.items) : attr.items[i].isa = "null" THEN empty
      ELSE [sections |-> Dedup([i \in 1..Len(attr.items) |-> attr.items[i].section]),
            updates |-> attr.items]

\* the selector '#' + id of the enclosing section
ClosestDestination(c) ==
  CASE c = "sec0" -> "#shopify-section-sec0"
    [] OTHER -> NULL

\* (mutant) the enclosing section is never looked up
GetClosestSection_None(attrs) ==
  [found |-> FALSE, section |-> NULL, destination |-> NULL]

\* _getClosestSection: null, or the section and destination of the enclosing
\* shopify-section element
GetClosestSection(attrs) ==
  LET c == attrs.closest
  IN  IF c = NULL THEN [found |-> FALSE, section |-> NULL, destination |-> NULL]
      ELSE [found |-> TRUE, section |-> c, destination |-> ClosestDestination(c)]

\* _isValidUpdates
IsValidUpdates(updates) ==
  \A i \in 1..Len(updates) :
    /\ updates[i].isa = "object"
    /\ IsString(updates[i].section)
    /\ IsString(updates[i].destination)

\* (mutant) the scoping flag is cleared as soon as one of section and
\* destination is taken from the enclosing section
Resolve_UnscopeOnEither(attrs, scoped) ==
  LET parsed == GetUpdatesArray(attrs)
      closest == GetClosestSection(attrs)
      updateMode == OrElse(attrs.mode, "replace")
      query == OrElse(attrs.query, NULL)
      section == OrElse(attrs.section, NULL)
      destination == OrElse(attrs.destination, NULL)
      section2 == IF section = NULL THEN closest.section ELSE section
      destination2 == IF destination = NULL THEN closest.destination ELSE destination
      failed == [threw |-> TRUE, updates |-> <<>>, sections |-> <<>>, scoped |-> scoped]
  IN  IF Len(parsed.updates) > 0
      THEN IF IsValidUpdates(parsed.updates)
           THEN [threw |-> FALSE, updates |-> parsed.updates,
                 sections |-> parsed.sections, scoped |-> scoped]
           ELSE failed
      ELSE IF (section = NULL \/ destination = NULL) /\ ~closest.found
      THEN failed
      ELSE LET scoped2 == IF (section = NULL \/ destination = NULL) /\ closest.found
                          THEN FALSE ELSE scoped
               updates == <<Desc(section2, destination2, updateMode, query)>>
           IN  IF IsValidUpdates(updates)
               THEN [threw |-> FALSE, updates |-> updates,
                     sections |-> <<section2>>, scoped |-> scoped2]
               ELSE [failed EXCEPT !.scoped = scoped2]

\* The resolution steps of _handleTrigger (lines 143-176) for a trigger with
\* the attributes `attrs`, given the scoping flag: whether they threw, the descriptors, the sections to request and the
\* scoping flag afterwards.
Resolve(attrs, scoped) ==
  LET parsed == GetUpdatesArray(attrs)
      closest == GetClosestSection(attrs)
      updateMode == OrElse(attrs.mode, "replace")
      query == OrElse(attrs.query, NULL)
      section == OrElse(attrs.section, NULL)
      destination == OrElse(attrs.destination, NULL)
      section2 == IF section = NULL THEN closest.section ELSE section
      destination2 == IF destination = NULL THEN closest.destination ELSE destination
      failed == [threw |-> TRUE, updates |-> <<>>, sections |-> <<>>, scoped |-> scoped]
  IN  IF Len(parsed.updates) > 0
      THEN IF IsValidUpdates(parsed.updates)
           THEN [threw |-> FALSE, updates |-> parsed.updates,
                 sections |-> parsed.sections, scoped |-> scoped]
           ELSE failed
      ELSE IF (section = NULL \/ destination = NULL) /\ ~closest.found
      THEN failed
      ELSE LET scoped2 == IF section = NULL /\ destination = NULL /\ closest.found
                          THEN FALSE ELSE scoped
               updates == <<Desc(section2, destination2, updateMode, query)>>
           IN  IF IsValidUpdates(updates)
               THEN [threw |-> FALSE, updates |-> updates,
                     sections |-> <<section2>>, scoped |-> scoped2]
               ELSE [failed EXCEPT !.scoped = scoped2]

\* ------------------------------------------------------------------------
\* DOM Patcher
\* ------------------------------------------------------------------------

\* _findElement: the element the selector names, searched in the instance's
\* subtree when the scoping flag is set and in the whole document otherwise;
\* NULL when nothing matches.
FindElement(selector, scoped) ==
  IF selector \in DestInside THEN selector
  ELSE IF ~scoped /\ selector \in DestOutside THEN selector
  ELSE NULL

\* The element of the fetched fragment a descriptor inserts (lines 437-443):
\* the element #shopify-section-<section> of the parsed fragment, narrowed to
\* the first match of `query` when there is one; NoNode for null.
SectionElement(resp, d, a) ==
  CASE FragOf(resp, d.section) = "absent" -> NoNode
    [] FragOf(resp, d.section) = "withSub" /\ Truthy(d.query) -> Node(a, d.section, "sub")
    [] OTHER -> Node(a, d.section, "root")

\* The body of the forEach callback of _updateSection for one descriptor d
\* on the document `dom`: the document afterwards and what happened
\*   "appended"   appendChild inserted the fetched element as last child
\*   "prepended"  prepend inserted the fetched element as first child
\*   "replaced"   the children were removed and the fetched element inserted
\*   "nulltext"   prepend(null) inserted the text node "null"
\*   "noop"       no case of the switch matched
\*   "threw"      an exception left the callback
\* (mutant) the alias `before` falls into the branch of `append`
PatchOne_BeforeAppends(dom, resp, d, scoped, a) ==
  LET dest == FindElement(d.destination, scoped)
      el == SectionElement(resp, d, a)
  IN  IF dest = NULL \/ el = NoNode THEN [dom |-> dom, outcome |-> "threw"]
      ELSE IF d.updateMode \in {"after", "append", "before"}
      THEN [dom |-> [dom EXCEPT ![dest] = Append(@, el)], outcome |-> "appended"]
      ELSE IF d.updateMode = "prepend"
      THEN [dom |-> [dom EXCEPT ![dest] = <<el>> \o @], outcome |-> "prepended"]
      ELSE IF d.updateMode \in {"replace", NULL}
      THEN [dom |-> [dom EXCEPT ![dest] = <<el>>], outcome |-> "replaced"]
      ELSE [dom |-> dom, outcome |-> "noop"]

PatchOne(dom, resp, d, scoped, a) ==
  LET dest == FindElement(d.destination, scoped)
      el == SectionElement(resp, d, a)
      threw == [dom |-> dom, outcome |-> "threw"]
  IN  IF d.destination = "" THEN threw
      ELSE IF Truthy(d.query) /\ el = NoNode THEN threw
      ELSE IF dest = NULL THEN threw
      ELSE CASE d.updateMode \in {"after", "append"} ->
                  IF el = NoNode THEN threw
                  ELSE [dom |-> [dom EXCEPT ![dest] = Append(@, el)], outcome |-> "appended"]
             [] d.updateMode \in {"before", "prepend"} ->
                  IF el = NoNode
                  THEN [dom |-> [dom EXCEPT ![dest] = <<TextNull>> \o @], outcome |-> "nulltext"]
                  ELSE [dom |-> [dom EXCEPT ![dest] = <<el>> \o @], outcome |-> "prepended"]
             [] d.updateMode \in {"replace", NULL} ->
                  IF el = NoNode
                  THEN [dom |-> [dom EXCEPT ![dest] = <<>>], outcome |-> "threw"]
                  ELSE [dom |-> [dom EXCEPT ![dest] = <<el>>], outcome |-> "replaced"]
             [] OTHER -> [dom |-> dom, outcome |-> "noop"]

\* _updateSection from descriptor k on: the descriptors are applied in list
\* order; the first exception ends the loop and is caught and logged inside
\* _updateSection. `outs` collects the outcome of each descriptor, "notrun"
\* for those after an exception.
RECURSIVE PatchFrom(_, _, _, _, _, _, _)
PatchFrom(dom, resp, updates, scoped, a, k, outs) ==
  IF k > Len(updates) THEN [dom |-> dom, outcomes |-> outs]
  ELSE LET r == PatchOne(dom, resp, updates[k], scoped, a)
       IN  IF r.outcome = "threw"
           THEN [dom |-> r.dom,
                 outcomes |-> outs \o <<"threw">> \o
                              [i \in 1..(Len(updates) - k) |-> "notrun"]]
           ELSE PatchFrom(r.dom, resp, updates, scoped, a, k + 1, Append(outs, r.outcome))

\* _updateSection({ response, updates }) of activation a
UpdateSection(dom, resp, updates, scoped, a) ==
  PatchFrom(dom, resp, updates, scoped, a, 1, <<>>)

\* ------------------------------------------------------------------------
\* State
\* ------------------------------------------------------------------------

VARIABLES
  page,              \* the trigger elements of the instance's subtree, in document order
  connected,         \* the element is in the document (between attach and detach)
  triggers,          \* this._triggers, <<>> for null
  triggerInits,      \* this._triggerInits, <<>> for null
  triggerIntersects, \* this._triggerIntersects, <<>> for null
  bound,             \* this._boundEventListeners: the triggers that are keys of the Map
  listeners,         \* the listeners of this instance attached to elements: a bag of
                     \* triggers, one copy for each attached listener
  observer,          \* this._observer: whether it exists, and the elements it observes
  loading,           \* this._loading
  loadingElement,    \* this._loadingElement, NULL or the selector that found it
  indicator,         \* the loading element carries the loading class
  timeoutId,         \* this._timeoutId: NULL, or "id" once _debounce has stored a timer id
  dtimers,           \* the pending timers set by _debounce
  scoped,            \* this.scoped
  scopedAttr,        \* the `scoped` attribute of the element: TRUE when unset
  renderUrl,         \* the `render-url` attribute of the element, NULL when unset
  config,            \* the fields loadingClass, historyMode, updateUrl, updateTitle
  edited,            \* the trigger elements whose attributes a script has changed
  trace,             \* what the last lifecycle callback did, in order: the events it
                     \* dispatched and its steps on listeners, timers and observer
  dom,               \* the children of each destination element
  hist,              \* the address bar, the number of pushed entries, the title
  acts,              \* the activations (calls of _handleTrigger), in start order
  lastEvent,         \* the last of the started/ended events dispatched
  sinceEv,           \* clock ticks since the last DOM event on a bound trigger, while
                     \* a debounce timer is pending
  lastEvTrigger,     \* the trigger of that event
  served,            \* what became of that event: "none" before the first event,
                     \* "pending", "once" or "twice" for the activations the debounce
                     \* timer has started since, "dropped" when a detach came first
  lifeEvent,         \* the last of the init/destroying events dispatched
  burst              \* the events the pending or last fired timer stands for: "none",
                     \* "single", "same" (several, one trigger), "mixed" (several triggers)

vars ==
  <<page, connected, triggers, triggerInits, triggerIntersects, bound, listeners,
    observer, loading, loadingElement, indicator, timeoutId, dtimers, scoped,
    scopedAttr, renderUrl, config, edited, trace, dom, hist, acts, lastEvent, sinceEv, lastEvTrigger, served,
    lifeEvent, burst>>

\* ------------------------------------------------------------------------
\* Instance configuration (constructor, lines 70-80)
\* ------------------------------------------------------------------------

\* loading-selector and loading-class of the README's example
LoadingSelector == "#loading"
LoadingClass == "is-loading"

\* history-mode is unset: 'replace'
HistoryMode == "replace"

\* update-url and update-title
UpdateUrl == "/next"
UpdateTitle == "Next"

\* The configuration fields of the instance (constructor, lines 75-80) with
\* the values above.
DefaultConfig ==
  [loadingClass |-> LoadingClass, historyMode |-> HistoryMode,
   updateUrl |-> UpdateUrl, updateTitle |-> UpdateTitle]

\* loadingClass.split(' '): the class names of the loading-class attribute.
\* A trailing or doubled space leaves an empty name.
ClassTokens(cls) ==
  CASE cls = "is-loading" -> <<"is-loading">>
    [] cls = "is-loading " -> <<"is-loading", "">>
    [] cls = "is-loading fade" -> <<"is-loading", "fade">>

\* The URL has another origin than the document: history.pushState and
\* history.replaceState throw a SecurityError for it.
CrossOrigin(u) == u = "https://cdn.example/next"

\* ------------------------------------------------------------------------
\* Lifecycle & History Coordinator
\* ------------------------------------------------------------------------

\* (mutant) every call dispatches `started`
ToggleLoading_AlwaysStarted(l, ind, le) ==
  [loading |-> ~l,
   indicator |-> IF le # NULL THEN ~l ELSE ind,
   event |-> EvStarted,
   threw |-> FALSE]

\* _toggleLoading: the flag is inverted, the indicator follows the flag when a
\* loading element is known, and `started` or `ended` is dispatched according
\* to the new value of the flag.
\* classList.toggle throws a SyntaxError for an empty class name, after the
\* names in front of it have been toggled and before any event is dispatched.
ToggleLoading(l, ind, le) ==
  LET byClass == le # NULL /\ Truthy(config.loadingClass)
      tokens == IF byClass THEN ClassTokens(config.loadingClass) ELSE <<>>
      threw == \E i \in 1..Len(tokens) : tokens[i] = ""
  IN  [loading |-> ~l,
       indicator |-> IF le # NULL /\ (byClass => tokens[1] # "") THEN ~l ELSE ind,
       event |-> IF threw THEN "none" ELSE IF ~l THEN EvStarted ELSE EvEnded,
       threw |-> threw]

\* what a call of _toggleLoading dispatches
Emitted(tg) == IF tg.threw THEN <<>> ELSE <<tg.event>>

\* the last of the started/ended events after a call of _toggleLoading
LastEvent(prev, tg) == IF tg.threw THEN prev ELSE tg.event

\* _updateHistory throws: pushState or replaceState is called with a URL of
\* another origin
HistoryThrows ==
  /\ Truthy(config.updateUrl)
  /\ config.historyMode \in {"add", "push", "replace"}
  /\ CrossOrigin(config.updateUrl)

\* (mutant) every mode pushes a new entry
UpdateHistory_AlwaysPush(h) ==
  LET h1 == IF Truthy(config.updateUrl)
            THEN [h EXCEPT !.url = config.updateUrl, !.pushed = @ + 1]
            ELSE h
  IN  IF Truthy(config.updateTitle) THEN [h1 EXCEPT !.title = config.updateTitle] ELSE h1

\* _updateHistory: the history entry and title after the call
UpdateHistory(h) ==
  LET h1 == IF Truthy(config.updateUrl)
            THEN CASE config.historyMode \in {"add", "push"} ->
                        [h EXCEPT !.url = config.updateUrl, !.pushed = @ + 1]
                   [] config.historyMode = "replace" -> [h EXCEPT !.url = config.updateUrl]
                   [] OTHER -> h
            ELSE h
  IN  IF HistoryThrows THEN h
      ELSE IF Truthy(config.updateTitle) THEN [h1 EXCEPT !.title = config.updateTitle]
      ELSE h1

\* ------------------------------------------------------------------------
\* The activation handler
\* ------------------------------------------------------------------------

\* window.location.pathname
PagePath == "/products/a"

\* The render-url attribute of a trigger, NULL when unset.
\*   btnR   <button trigger section="s1" destination="#d1"
\*                  render-url="/search?q=x&sections=old&page=2">
RenderUrlAttr(t) ==
  CASE t = "btnR" -> "/search?q=x&sections=old&page=2"
    [] OTHER -> NULL

\* The values of the instance's render-url attribute.
RenderUrls == {NULL, "/alt", "/collections/all?sort=new"}

\* A URL as `new URL(renderUrl, window.location.origin)` and
\* URLSearchParams parse it: the path and the query parameters in order.
Param(k, v) == [k |-> k, v |-> v]
ParseUrl(u) ==
  CASE u = "/products/a" -> [path |-> "/products/a", params |-> <<>>]
    [] u = "/alt" -> [path |-> "/alt", params |-> <<>>]
    [] u = "/collections/all?sort=new" ->
         [path |-> "/collections/all", params |-> <<Param("sort", "new")>>]
    [] u = "/search?q=x&sections=old&page=2" ->
         [path |-> "/search",
          params |-> <<Param("q", "x"), Param("sections", "old"), Param("page", "2")>>]

\* no URL was built
NoUrl == [path |-> NULL, params |-> <<>>]

\* sections.join(',')
RECURSIVE Join(_)
Join(xs) ==
  IF xs = <<>> THEN ""
  ELSE IF Len(xs) = 1 THEN xs[1]
  ELSE xs[1] \o "," \o Join(Tail(xs))

\* URLSearchParams.set(k, v): the first parameter named k gets the value v
\* and the other parameters named k are removed; without a parameter named k
\* the pair is appended.
RECURSIVE ParamsSet(_, _, _, _)
ParamsSet(ps, k, v, seen) ==
  IF ps = <<>> THEN (IF seen THEN <<>> ELSE <<Param(k, v)>>)
  ELSE IF Head(ps).k = k
       THEN (IF seen THEN <<>> ELSE <<Param(k, v)>>) \o ParamsSet(Tail(ps), k, v, TRUE)
       ELSE <<Head(ps)>> \o ParamsSet(Tail(ps), k, v, seen)

\* String.prototype.trim on the joined section names of the modelled pages:
\* leading and trailing whitespace is removed
Trim(str) ==
  CASE str = " s1" -> "s1"
    [] OTHER -> str

\* The attributes of the trigger t after a script has changed them: another
\* section, destination and update mode.
EditedAttrs(t) ==
  [Attrs(t) EXCEPT !.section = "s2", !.destination = "#d2", !.mode = "append"]

\* (mutant) the attributes the trigger had when the page was loaded
CurAttrs_Snapshot(t) == Attrs(t)

\* getAttribute on the trigger t now
CurAttrs(t) == IF t \in edited THEN EditedAttrs(t) ELSE Attrs(t)

\* The render-url attribute of the trigger t now; the script that changes a
\* trigger's attributes also sets its render-url.
CurRenderUrl(t) == IF t \in edited THEN "/alt" ELSE RenderUrlAttr(t)

\* (mutant) the instance's render-url wins over the trigger's
BuildUrl_InstanceFirst(sections, triggerUrl, instanceUrl) ==
  LET u == ParseUrl(IF Truthy(instanceUrl) THEN instanceUrl
                    ELSE IF Truthy(triggerUrl) THEN triggerUrl
                    ELSE PagePath)
  IN  [path |-> u.path,
       params |-> ParamsSet(u.params, "sections", Trim(Join(sections)), FALSE)]

\* _buildUrl(sections, trigger): the URL of the request.
BuildUrl(sections, triggerUrl, instanceUrl) ==
  LET u == ParseUrl(IF Truthy(triggerUrl) THEN triggerUrl
                    ELSE IF Truthy(instanceUrl) THEN instanceUrl
                    ELSE PagePath)
  IN  [path |-> u.path,
       params |-> ParamsSet(u.params, "sections", Trim(Join(sections)), FALSE)]

\* The logs of the activations k, k+1, ... of `as`, one after the other.
RECURSIVE LogsFrom(_, _)
LogsFrom(as, k) ==
  IF k > Len(as) THEN <<>> ELSE as[k].log \o LogsFrom(as, k + 1)

\* (mutant) the init event is dispatched after the init triggers have been
\* handled
AttachTrace_InitLast(trg, evs, ints) ==
  [i \in 1..Len(trg) |-> "addEventListener"] \o evs \o <<EvInit>>
    \o [i \in 1..Len(ints) |-> "observe"]

\* connectedCallback, lines 90-100, for a valid initialization: the
\* listeners are bound, the init event is dispatched, the init triggers are
\* handled (evs: what their activations do before they await) and the
\* intersection triggers are observed.
AttachTrace(trg, evs, ints) ==
  [i \in 1..Len(trg) |-> "addEventListener"] \o <<EvInit>> \o evs
    \o [i \in 1..Len(ints) |-> "observe"]

\* (mutant) the destroying event is dispatched when everything is released
DetachTrace_EventLast(r) ==
  (IF Truthy(r.timeoutId) THEN <<"clearTimeout">> ELSE <<>>)
    \o [i \in 1..Cardinality(r.bound) |-> "removeEventListener"]
    \o (IF r.observer.on THEN <<"disconnect">> ELSE <<>>)
    \o <<EvDestroy>>

\* disconnectedCallback, lines 117-137, on the references r: the destroying
\* event, then the debounce timer is cleared if there is a handle, the
\* listener of each key of the binding table is removed, and an existing
\* observer is disconnected.
DetachTrace(r) ==
  <<EvDestroy>>
    \o (IF Truthy(r.timeoutId) THEN <<"clearTimeout">> ELSE <<>>)
    \o [i \in 1..Cardinality(r.bound) |-> "removeEventListener"]
    \o (IF r.observer.on THEN <<"disconnect">> ELSE <<>>)

\* The part of the instance state that _handleTrigger reads and writes.
Core == [acts |-> acts, loading |-> loading, indicator |-> indicator,
         lastEvent |-> lastEvent, scoped |-> scoped]

\* _handleTrigger(t) up to its first suspension point (lines 141-183), run on
\* the state st, with the loading element le. When resolution or validation throws, the catch block
\* dispatches the error event and the finally block toggles the loading flag,
\* and the activation is over. Otherwise the loading flag is toggled, the
\* request is issued, the timeout timer is set, and the activation awaits the
\* race of the two.
HandleTriggerStart(st, t, source, le) ==
  LET r == Resolve(CurAttrs(t), st.scoped)
      tg == ToggleLoading(st.loading, st.indicator, le)
      tg2 == ToggleLoading(tg.loading, tg.indicator, le)
      base == [trigger |-> t, source |-> source, updates |-> r.updates,
               sections |-> r.sections, won |-> "none", outcomes |-> <<>>,
               complete |-> FALSE, wrote |-> FALSE,
               url |-> IF r.threw \/ tg.threw THEN NoUrl
                       ELSE BuildUrl(r.sections, CurRenderUrl(t), renderUrl)]
      act == IF r.threw
             THEN base @@ [pc |-> "done", fetch |-> "none", timer |-> "none",
                           log |-> <<EvError>> \o Emitted(tg), rejected |-> tg.threw]
             ELSE IF tg.threw
             THEN base @@ [pc |-> "done", fetch |-> "none", timer |-> "none",
                           log |-> <<EvError>> \o Emitted(tg2), rejected |-> tg2.threw]
             ELSE base @@ [pc |-> "awaiting", fetch |-> "pending", timer |-> "pending",
                           log |-> <<tg.event, "fetch">>, rejected |-> FALSE]
      end == IF ~r.threw /\ tg.threw THEN tg2 ELSE tg
  IN  [acts |-> Append(st.acts, act), loading |-> end.loading,
       indicator |-> end.indicator, lastEvent |-> LastEvent(st.lastEvent, end),
       scoped |-> r.scoped]

\* (mutant) only the first trigger of the list is activated
HandleTriggersStart_FirstOnly(st, ts, source, le) ==
  IF ts = <<>> THEN st ELSE HandleTriggerStart(st, Head(ts), source, le)

\* The activations of a list of triggers, started one after the other in the
\* same task (the map of _handleTriggerInits).
RECURSIVE HandleTriggersStart(_, _, _, _)
HandleTriggersStart(st, ts, source, le) ==
  IF ts = <<>> THEN st
  ELSE HandleTriggersStart(HandleTriggerStart(st, Head(ts), source, le),
                           Tail(ts), source, le)

\* (mutant) the continuation also runs for a settlement that lost the race
RaceOpen_NoRace(act) == TRUE

\* (mutant) the rejection of the timeout timer is handled whenever the timer
\* fires, settled request or not
RaceOpen_UntilTimer(act) == act.pc = "awaiting" \/ act.timer = "pending"

\* Promise.race (lines 180-183): the activation is still waiting for the
\* first of its request and its timeout timer to settle.
RaceOpen(act) == act.pc = "awaiting"

\* (mutant) the patch of an activation is dropped when an activation that
\* started later has already patched
ContinueResolved_StartOrder(st, h, d, a, resp, le) ==
  LET act == st.acts[a]
      p == UpdateSection(d, resp, act.updates, st.scoped, a)
      tg == ToggleLoading(st.loading, st.indicator, le)
      h2 == UpdateHistory(h)
      wrote == /\ ~HistoryThrows
               /\ \/ Truthy(config.updateTitle)
                  \/ Truthy(config.updateUrl) /\
                       config.historyMode \in {"add", "push", "replace"}
  IN  [core |-> [st EXCEPT !.acts[a].pc = "done",
                           !.acts[a].won = IF @ = "none" THEN "fetch" ELSE @,
                           !.acts[a].outcomes = p.outcomes,
                           !.acts[a].complete =
                             \A s \in Range(act.sections) : FragOf(resp, s) # "absent",
                           !.acts[a].wrote = wrote,
                           !.acts[a].log = @ \o <<"patch">> \o
                                           (IF wrote THEN <<"history">> ELSE <<>>) \o
                                           (IF HistoryThrows THEN <<EvError>> ELSE <<>>) \o
                                           Emitted(tg),
                           !.acts[a].rejected = tg.threw,
                           !.loading = tg.loading,
                           !.indicator = tg.indicator,
                           !.lastEvent = LastEvent(@, tg)],
       dom |-> IF \E b \in DOMAIN st.acts :
                    b > a /\ st.acts[b].pc = "done" /\ st.acts[b].won = "fetch"
               THEN d ELSE p.dom,
       hist |-> h2]

\* The continuation of _handleTrigger after the request won the race with a
\* parsed response (lines 185-187, 191-193): patch, history, toggle.
ContinueResolved(st, h, d, a, resp, le) ==
  LET act == st.acts[a]
      p == UpdateSection(d, resp, act.updates, st.scoped, a)
      tg == ToggleLoading(st.loading, st.indicator, le)
      h2 == UpdateHistory(h)
      wrote == /\ ~HistoryThrows
               /\ \/ Truthy(config.updateTitle)
                  \/ Truthy(config.updateUrl) /\
                       config.historyMode \in {"add", "push", "replace"}
  IN  [core |-> [st EXCEPT !.acts[a].pc = "done",
                           !.acts[a].won = IF @ = "none" THEN "fetch" ELSE @,
                           !.acts[a].outcomes = p.outcomes,
                           !.acts[a].complete =
                             \A s \in Range(act.sections) : FragOf(resp, s) # "absent",
                           !.acts[a].wrote = wrote,
                           !.acts[a].log = @ \o <<"patch">> \o
                                           (IF wrote THEN <<"history">> ELSE <<>>) \o
                                           (IF HistoryThrows THEN <<EvError>> ELSE <<>>) \o
                                           Emitted(tg),
                           !.acts[a].rejected = tg.threw,
                           !.loading = tg.loading,
                           !.indicator = tg.indicator,
                           !.lastEvent = LastEvent(@, tg)],
       dom |-> p.dom,
       hist |-> h2]

\* (mutant) a rejected race leaves the activation waiting
ContinueRejected_Stuck(st, a, by, le) == st

\* (mutant) one rejection ends every activation that is still waiting
ContinueRejected_All(st, a, by, le) ==
  LET tg == ToggleLoading(st.loading, st.indicator, le)
  IN  [st EXCEPT !.acts = [b \in DOMAIN st.acts |->
                             IF st.acts[b].pc = "awaiting"
                             THEN [st.acts[b] EXCEPT !.pc = "done",
                                                     !.won = IF @ = "none" THEN by ELSE @,
                                                     !.rejected = tg.threw,
                                                     !.log = @ \o <<EvError>> \o Emitted(tg)]
                             ELSE st.acts[b]],
                 !.loading = tg.loading,
                 !.indicator = tg.indicator,
                 !.lastEvent = LastEvent(@, tg)]

\* (mutant) a rejected race that dispatches no error event
ContinueRejected_NoEvent(st, a, by, le) ==
  LET tg == ToggleLoading(st.loading, st.indicator, le)
  IN  [st EXCEPT !.acts[a].pc = "done",
                 !.acts[a].won = IF @ = "none" THEN by ELSE @,
                 !.acts[a].log = @ \o Emitted(tg),
                 !.acts[a].rejected = tg.threw,
                 !.loading = tg.loading,
                 !.indicator = tg.indicator,
                 !.lastEvent = LastEvent(@, tg)]

\* The continuation of _handleTrigger after the race rejected (lines 188-193):
\* the request failed or the timeout timer fired first (`by`).
ContinueRejected(st, a, by, le) ==
  LET tg == ToggleLoading(st.loading, st.indicator, le)
  IN  [st EXCEPT !.acts[a].pc = "done",
                 !.acts[a].won = IF @ = "none" THEN by ELSE @,
                 !.acts[a].log = @ \o <<EvError>> \o Emitted(tg),
                 !.acts[a].rejected = tg.threw,
                 !.loading = tg.loading,
                 !.indicator = tg.indicator,
                 !.lastEvent = LastEvent(@, tg)]

\* ------------------------------------------------------------------------
\* Event Binder: the debounce gate
\* ------------------------------------------------------------------------

\* The timers of the browser that _debounce has set and that have neither
\* fired nor been cleared. `cur` says that the timer's id is the one stored in
\* this._timeoutId; `rem` is the time left.
Timer(t, rem) == [trigger |-> t, cur |-> TRUE, rem |-> rem]

\* (mutant) a clearTimeout that clears nothing
ClearTimeout_Keep(timers, tid) == timers

\* clearTimeout(this._timeoutId)
ClearTimeout(timers, tid) ==
  IF tid = NULL THEN timers ELSE {tm \in timers : ~tm.cur}

\* (mutant) _debounce without its clearTimeout
Debounce_NoClear(timers, tid, t) ==
  {[tm EXCEPT !.cur = FALSE] : tm \in timers} \cup {Timer(t, DebounceTime)}

\* (mutant) a debounce timer per trigger: only the timer of the same trigger
\* is cleared
Debounce_PerTrigger(timers, tid, t) ==
  {tm \in timers : tm.trigger # t} \cup {Timer(t, DebounceTime)}

\* _debounce(func, wait) for the listener of trigger t: the timer whose id is
\* this._timeoutId is cleared, a new timer is set and its id is stored.
Debounce(timers, tid, t) ==
  {[tm EXCEPT !.cur = FALSE] : tm \in ClearTimeout(timers, tid)} \cup
  {Timer(t, DebounceTime)}

\* ------------------------------------------------------------------------
\* Initial state: the instance is constructed, not yet attached
\* ------------------------------------------------------------------------

WithMarker(p, m) == SelectSeq(p, LAMBDA t : Attrs(t).marker = m)

\* _findElements('[m]', forceScoped) on the page p with this.scoped = sc: the
\* elements that carry the attribute m, in the instance's subtree when the
\* flag or forceScoped is set, and in the whole document otherwise; <<>> for
\* null
FindElements(p, m, sc, forceScoped) ==
  IF sc \/ forceScoped
  THEN SelectSeq(WithMarker(p, m), LAMBDA t : t \notin OutsideTriggers)
  ELSE WithMarker(p, m)

\* _addEventListeners: a new listener on each element of this._triggers
AddEventListeners(ls, trg) == ls (+) SetToBag(Range(trg))

\* (mutant) a detach that leaves the listeners on the elements
RemoveListeners_Keep(ls, b) == ls

\* disconnectedCallback, lines 123-125: the listener recorded for each key of
\* the binding table is removed from its element
RemoveListeners(ls, b) == ls (-) SetToBag(b)

\* (mutant) an attach that goes on without any trigger
IsInvalidInit_Never(trg, ini, ints) == FALSE

\* _isInvalidInit: none of the three lists of triggers holds an element
IsInvalidInit(trg, ini, ints) == trg = <<>> /\ ini = <<>> /\ ints = <<>>

Init ==
  /\ page \in Pages
  /\ connected = FALSE
  /\ triggers = <<>>
  /\ triggerInits = <<>>
  /\ triggerIntersects = <<>>
  /\ bound = {}
  /\ listeners = EmptyBag
  /\ observer = [on |-> FALSE, observed |-> {}]
  /\ loading = FALSE
  /\ loadingElement = NULL
  /\ indicator = FALSE
  /\ timeoutId = NULL
  /\ dtimers = {}
  /\ scopedAttr = TRUE
  /\ scoped = scopedAttr
  /\ config = DefaultConfig
  /\ edited = {}
  /\ renderUrl = NULL
  /\ trace = <<>>
  /\ dom = [e \in DestInside \cup DestOutside |-> <<OldNode>>]
  /\ hist = [url |-> "/", pushed |-> 0, title |-> "Home"]
  /\ acts = <<>>
  /\ lastEvent = "none"
  /\ sinceEv = 0
  /\ lastEvTrigger = NULL
  /\ served = "none"
  /\ lifeEvent = "none"
  /\ burst = "none"

\* ------------------------------------------------------------------------
\* Actions
\* ------------------------------------------------------------------------

SetCore(st) ==
  /\ acts' = st.acts
  /\ loading' = st.loading
  /\ indicator' = st.indicator
  /\ lastEvent' = st.lastEvent
  /\ scoped' = st.scoped

\* connectedCallback
Attach ==
  LET trg == FindElements(page, "trigger", scoped, TRUE)
      ini == FindElements(page, "trigger-init", scoped, TRUE)
      ints == FindElements(page, "trigger-intersect", scoped, TRUE)
      le == IF Truthy(LoadingSelector) THEN LoadingSelector ELSE loadingElement
      ind == IF ~Truthy(config.loadingClass) /\ le # NULL THEN FALSE ELSE indicator
  IN  /\ ~connected
      /\ Len(acts) + Len(ini) <= MaxActs
      /\ connected' = TRUE
      /\ triggers' = trg
      /\ triggerInits' = ini
      /\ triggerIntersects' = ints
      /\ IF IsInvalidInit(trg, ini, ints)
         THEN /\ trace' = <<>>
              /\ UNCHANGED <<bound, listeners, observer, loading, loadingElement,
                             indicator, scoped, acts, lastEvent, lifeEvent>>
         ELSE /\ lifeEvent' = EvInit
              /\ trace' = AttachTrace(trg,
                             LogsFrom(HandleTriggersStart([Core EXCEPT !.indicator = ind],
                                                          ini, "init", le).acts,
                                      Len(acts) + 1),
                             ints)
              /\ bound' = bound \cup Range(trg)
              /\ listeners' = AddEventListeners(listeners, trg)
              /\ loadingElement' = le
              /\ SetCore(HandleTriggersStart([Core EXCEPT !.indicator = ind],
                                             ini, "init", le))
              /\ observer' = IF ints # <<>>
                             THEN [on |-> TRUE, observed |-> Range(ints)]
                             ELSE observer
      /\ UNCHANGED <<scopedAttr, renderUrl, config, edited, page, timeoutId, dtimers, dom, hist, sinceEv, lastEvTrigger,
                     served, burst>>

\* The references and resources of the instance that disconnectedCallback
\* releases.
InstanceRefs ==
  [dtimers |-> dtimers, timeoutId |-> timeoutId, bound |-> bound,
   listeners |-> listeners, loadingElement |-> loadingElement,
   triggers |-> triggers, observer |-> observer, threw |-> FALSE]

\* (mutant) the observer is disconnected without the test for null
ReleaseObserver_NoNullCheck(o) ==
  [observer |-> [on |-> FALSE, observed |-> {}], threw |-> ~o.on]

\* disconnectedCallback, lines 134-137: an existing observer is disconnected
\* and the reference is set to null
ReleaseObserver(o) ==
  [observer |-> IF o.on THEN [on |-> FALSE, observed |-> {}] ELSE o, threw |-> FALSE]

\* The body of disconnectedCallback (lines 119-137) on the references r
DisconnectedCallback(r) ==
  LET o == ReleaseObserver(r.observer)
  IN  [dtimers |-> ClearTimeout(r.dtimers, r.timeoutId),
       timeoutId |-> r.timeoutId,
       bound |-> {},
       listeners |-> RemoveListeners(r.listeners, r.bound),
       loadingElement |-> NULL,
       triggers |-> <<>>,
       observer |-> o.observer,
       threw |-> r.threw \/ o.threw]

\* disconnectedCallback
Detach ==
  /\ connected
  /\ connected' = FALSE
  /\ dtimers' = DisconnectedCallback(InstanceRefs).dtimers
  /\ listeners' = DisconnectedCallback(InstanceRefs).listeners
  /\ bound' = DisconnectedCallback(InstanceRefs).bound
  /\ loadingElement' = DisconnectedCallback(InstanceRefs).loadingElement
  /\ triggers' = DisconnectedCallback(InstanceRefs).triggers
  /\ observer' = DisconnectedCallback(InstanceRefs).observer
  /\ served' = IF served = "pending" THEN "dropped" ELSE served
  /\ lifeEvent' = EvDestroy
  /\ trace' = DetachTrace(InstanceRefs)
  /\ UNCHANGED <<scopedAttr, renderUrl, config, edited, page, triggerInits, triggerIntersects, loading, indicator, timeoutId,
                 scoped, dom, hist, acts, lastEvent, sinceEv, lastEvTrigger, burst>>

\* boundListener: a DOM event of the bound type on trigger t
DOMEvent(t) ==
  /\ BagIn(t, listeners)
  /\ Len(acts) < MaxActs
  /\ dtimers' = Debounce(dtimers, timeoutId, t)
  /\ timeoutId' = "id"
  /\ sinceEv' = 0
  /\ lastEvTrigger' = t
  /\ served' = "pending"
  /\ burst' = IF dtimers = {} THEN "single"
              ELSE IF burst = "mixed" \/ lastEvTrigger # t THEN "mixed" ELSE "same"
  /\ UNCHANGED <<scopedAttr, renderUrl, config, edited, trace, lifeEvent, page, connected, triggers, triggerInits, triggerIntersects, bound,
                 listeners, observer, loading, loadingElement, indicator, scoped, dom,
                 hist, acts, lastEvent>>

\* The debounce timer tm is due: its callback calls _handleTrigger.
DebounceFires(tm) ==
  /\ tm \in dtimers
  /\ tm.rem = 0
  /\ Len(acts) < MaxActs
  /\ dtimers' = dtimers \ {tm}
  /\ SetCore(HandleTriggerStart(Core, tm.trigger, "listener", loadingElement))
  /\ served' = IF served = "pending" THEN "once" ELSE "twice"
  /\ UNCHANGED <<scopedAttr, renderUrl, config, edited, trace, lifeEvent, page, connected, triggers, triggerInits, triggerIntersects, bound,
                 listeners, observer, loadingElement, timeoutId, dom, hist, sinceEv,
                 lastEvTrigger, burst>>

\* String.prototype.toLocaleLowerCase on the values of intersect-once
ToLowerCase(str) ==
  CASE str = "TRUE" -> "true"
    [] str = "True" -> "true"
    [] str = "FALSE" -> "false"
    [] str = "False" -> "false"
    [] OTHER -> str

\* (mutant) every intersection trigger is unobserved after its activation
IsOnce_Always(attrs) == TRUE

\* line 377: the `once` of the observer callback
IsOnce(attrs) == ToLowerCase(OrElse(attrs.intersectOnce, "true")) = "true"

\* The IntersectionObserver callback for an observed element that enters the
\* viewport (lines 372-381).
IntersectionEntry(t) ==
  LET once == IsOnce(CurAttrs(t))
  IN  /\ observer.on
      /\ t \in observer.observed
      /\ Len(acts) < MaxActs
      /\ SetCore(HandleTriggerStart(Core, t, "intersect", loadingElement))
      /\ observer' = IF once THEN [observer EXCEPT !.observed = @ \ {t}] ELSE observer
      /\ UNCHANGED <<scopedAttr, renderUrl, config, edited, trace, lifeEvent, page, connected, triggers, triggerInits, triggerIntersects, bound,
                     listeners, loadingElement, timeoutId, dtimers, dom, hist, sinceEv,
                     lastEvTrigger, served, burst>>

\* The request of activation a settles with a parsed response. If the
\* activation still awaits the race, it continues with the patch.
FetchResolves(a) ==
  /\ a \in 1..Len(acts)
  /\ acts[a].fetch = "pending"
  /\ IF RaceOpen(acts[a])
     THEN \E resp \in Responses(acts[a].sections) :
            LET c == ContinueResolved([Core EXCEPT !.acts[a].fetch = "resolved"],
                                      hist, dom, a, resp, loadingElement)
            IN  /\ SetCore(c.core)
                /\ dom' = c.dom
                /\ hist' = c.hist
     ELSE /\ acts' = [acts EXCEPT ![a].fetch = "resolved"]
          /\ UNCHANGED <<loading, indicator, lastEvent, scoped, dom, hist>>
  /\ UNCHANGED <<scopedAttr, renderUrl, config, edited, trace, lifeEvent, page, connected, triggers, triggerInits, triggerIntersects, bound,
                 listeners, observer, loadingElement, timeoutId, dtimers, sinceEv,
                 lastEvTrigger, served, burst>>

\* The request of activation a fails: transport failure, a non-success
\* status, or a body that is no JSON (_fetchSections throws).
FetchRejects(a) ==
  /\ a \in 1..Len(acts)
  /\ acts[a].fetch = "pending"
  /\ IF RaceOpen(acts[a])
     THEN SetCore(ContinueRejected([Core EXCEPT !.acts[a].fetch = "rejected"],
                                   a, "fetch", loadingElement))
     ELSE /\ acts' = [acts EXCEPT ![a].fetch = "rejected"]
          /\ UNCHANGED <<loading, indicator, lastEvent, scoped>>
  /\ UNCHANGED <<scopedAttr, renderUrl, config, edited, trace, lifeEvent, page, connected, triggers, triggerInits, triggerIntersects, bound,
                 listeners, observer, loadingElement, timeoutId, dtimers, dom, hist,
                 sinceEv, lastEvTrigger, served, burst>>

\* The timeout timer of activation a fires (_requestTimeout rejects). All
\* timeout timers run for this.timeout, so they fire in the order they were set.
TimeoutFires(a) ==
  /\ a \in 1..Len(acts)
  /\ acts[a].timer = "pending"
  /\ \A b \in 1..(a - 1) : acts[b].timer # "pending"
  /\ IF RaceOpen(acts[a])
     THEN SetCore(ContinueRejected([Core EXCEPT !.acts[a].timer = "fired"],
                                   a, "timer", loadingElement))
     ELSE /\ acts' = [acts EXCEPT ![a].timer = "fired"]
          /\ UNCHANGED <<loading, indicator, lastEvent, scoped>>
  /\ UNCHANGED <<scopedAttr, renderUrl, config, edited, trace, lifeEvent, page, connected, triggers, triggerInits, triggerIntersects, bound,
                 listeners, observer, loadingElement, timeoutId, dtimers, dom, hist,
                 sinceEv, lastEvTrigger, served, burst>>

\* One tick of the clock while a debounce timer is pending. A timer that is
\* due runs before the clock moves on.
Tick ==
  /\ dtimers # {}
  /\ \A tm \in dtimers : tm.rem > 0
  /\ dtimers' = {[tm EXCEPT !.rem = @ - 1] : tm \in dtimers}
  /\ sinceEv' = IF sinceEv <= DebounceTime THEN sinceEv + 1 ELSE sinceEv
  /\ UNCHANGED <<scopedAttr, renderUrl, config, edited, trace, lifeEvent, page, connected, triggers, triggerInits, triggerIntersects, bound,
                 listeners, observer, loading, loadingElement, indicator, timeoutId,
                 scoped, dom, hist, acts, lastEvent, lastEvTrigger, served, burst>>

Next ==
  \/ Attach
  \/ Detach
  \/ \E t \in AllTriggers : DOMEvent(t)
  \/ \E tm \in dtimers : DebounceFires(tm)
  \/ \E t \in AllTriggers : IntersectionEntry(t)
  \/ \E a \in 1..MaxActs : FetchResolves(a)
  \/ \E a \in 1..MaxActs : FetchRejects(a)
  \/ \E a \in 1..MaxActs : TimeoutFires(a)
  \/ Tick

Spec == Init /\ [][Next]_vars

\* The instance constructed in one of the pages that exercise the scoping
\* rule and the validation pass, with the `scoped` attribute unset, "true" or
\* "false" (constructor, line 77).
InitConfig ==
  /\ page \in ConfigPages
  /\ connected = FALSE
  /\ triggers = <<>>
  /\ triggerInits = <<>>
  /\ triggerIntersects = <<>>
  /\ bound = {}
  /\ listeners = EmptyBag
  /\ observer = [on |-> FALSE, observed |-> {}]
  /\ loading = FALSE
  /\ loadingElement = NULL
  /\ indicator = FALSE
  /\ timeoutId = NULL
  /\ dtimers = {}
  /\ scopedAttr \in BOOLEAN
  /\ scoped = scopedAttr
  /\ config = DefaultConfig
  /\ edited = {}
  /\ renderUrl = NULL
  /\ trace = <<>>
  /\ dom = [e \in DestInside \cup DestOutside |-> <<OldNode>>]
  /\ hist = [url |-> "/", pushed |-> 0, title |-> "Home"]
  /\ acts = <<>>
  /\ lastEvent = "none"
  /\ sinceEv = 0
  /\ lastEvTrigger = NULL
  /\ served = "none"
  /\ lifeEvent = "none"
  /\ burst = "none"

SpecConfig == InitConfig /\ [][Next]_vars

\* The instance constructed in one of the pages that exercise the resolution
\* of descriptors, with the `render-url` attribute unset or set (constructor,
\* lines 61-80).
InitResolve ==
  /\ page \in ResolvePages \cup ObservePages \cup InitPages
  /\ connected = FALSE
  /\ triggers = <<>>
  /\ triggerInits = <<>>
  /\ triggerIntersects = <<>>
  /\ bound = {}
  /\ listeners = EmptyBag
  /\ observer = [on |-> FALSE, observed |-> {}]
  /\ loading = FALSE
  /\ loadingElement = NULL
  /\ indicator = FALSE
  /\ timeoutId = NULL
  /\ dtimers = {}
  /\ scopedAttr = TRUE
  /\ scoped = scopedAttr
  /\ config = DefaultConfig
  /\ edited = {}
  /\ renderUrl \in RenderUrls
  /\ trace = <<>>
  /\ dom = [e \in DestInside \cup DestOutside |-> <<OldNode>>]
  /\ hist = [url |-> "/", pushed |-> 0, title |-> "Home"]
  /\ acts = <<>>
  /\ lastEvent = "none"
  /\ sinceEv = 0
  /\ lastEvTrigger = NULL
  /\ served = "none"
  /\ lifeEvent = "none"
  /\ burst = "none"

\* The steps up to the start of a request: the instance is attached and
\* detached, its triggers are activated, and every request is still in flight.
NextResolve ==
  \/ Attach
  \/ Detach
  \/ \E t \in AllTriggers : DOMEvent(t)
  \/ \E tm \in dtimers : DebounceFires(tm)
  \/ \E t \in AllTriggers : IntersectionEntry(t)
  \/ Tick

SpecResolve == InitResolve /\ [][NextResolve]_vars

\* The page of the instances whose configuration varies: one button.
SettingsPages == { <<"btnA">> }

\* The configurations an instance is constructed with (lines 75-80): the
\* README's example; history-mode push and add; no update-url; neither
\* update-url nor update-title; no loading-class; a loading-class with a
\* trailing space; an update-url on another origin.
Configs ==
  { DefaultConfig,
    [DefaultConfig EXCEPT !.historyMode = "push", !.updateTitle = NULL],
    [DefaultConfig EXCEPT !.historyMode = "add"],
    [DefaultConfig EXCEPT !.updateUrl = NULL],
    [DefaultConfig EXCEPT !.updateUrl = NULL, !.updateTitle = NULL],
    [DefaultConfig EXCEPT !.loadingClass = NULL],
    [DefaultConfig EXCEPT !.loadingClass = "is-loading "],
    [DefaultConfig EXCEPT !.updateUrl = "https://cdn.example/next"] }

\* The values a script gives to the update-url and update-title attributes.
UrlValues == {"/next", "/later"}
TitleValues == {NULL, "Next"}

InitSettings ==
  /\ page \in SettingsPages
  /\ connected = FALSE
  /\ triggers = <<>>
  /\ triggerInits = <<>>
  /\ triggerIntersects = <<>>
  /\ bound = {}
  /\ listeners = EmptyBag
  /\ observer = [on |-> FALSE, observed |-> {}]
  /\ loading = FALSE
  /\ loadingElement = NULL
  /\ indicator = FALSE
  /\ timeoutId = NULL
  /\ dtimers = {}
  /\ scopedAttr = TRUE
  /\ scoped = scopedAttr
  /\ config \in Configs
  /\ edited = {}
  /\ renderUrl = NULL
  /\ trace = <<>>
  /\ dom = [e \in DestInside \cup DestOutside |-> <<OldNode>>]
  /\ hist = [url |-> "/", pushed |-> 0, title |-> "Home"]
  /\ acts = <<>>
  /\ lastEvent = "none"
  /\ sinceEv = 0
  /\ lastEvTrigger = NULL
  /\ served = "none"
  /\ lifeEvent = "none"
  /\ burst = "none"

\* attributeChangedCallback(name, oldValue, newValue) for update-url and
\* update-title, while a trigger event waits in the debounce gate
AttributeChanged(name, v) ==
  /\ dtimers # {}
  /\ \/ /\ name = "update-url"
        /\ v \in UrlValues
        /\ v # config.updateUrl
        /\ config' = [config EXCEPT !.updateUrl = OrElse(v, NULL)]
     \/ /\ name = "update-title"
        /\ v \in TitleValues
        /\ v # config.updateTitle
        /\ config' = [config EXCEPT !.updateTitle = OrElse(v, NULL)]
  /\ UNCHANGED <<scopedAttr, renderUrl, edited, trace, lifeEvent, page, connected,
                 triggers, triggerInits, triggerIntersects, bound, listeners, observer,
                 loading, loadingElement, indicator, timeoutId, dtimers, scoped, dom,
                 hist, acts, lastEvent, sinceEv, lastEvTrigger, served, burst>>

\* A script changes the section, destination, update-mode and render-url
\* attributes of the trigger t while its event waits in the debounce gate.
EditTrigger(t) ==
  /\ \E tm \in dtimers : tm.trigger = t /\ tm.cur
  /\ t \notin edited
  /\ edited' = edited \cup {t}
  /\ UNCHANGED <<scopedAttr, renderUrl, config, trace, lifeEvent, page, connected,
                 triggers, triggerInits, triggerIntersects, bound, listeners, observer,
                 loading, loadingElement, indicator, timeoutId, dtimers, scoped, dom,
                 hist, acts, lastEvent, sinceEv, lastEvTrigger, served, burst>>

\* A script changes the render-url attribute of the instance while a trigger
\* event waits in the debounce gate.
SetRenderUrl(v) ==
  /\ dtimers # {}
  /\ v \in RenderUrls
  /\ v # renderUrl
  /\ renderUrl' = v
  /\ UNCHANGED <<scopedAttr, config, edited, trace, lifeEvent, page, connected,
                 triggers, triggerInits, triggerIntersects, bound, listeners, observer,
                 loading, loadingElement, indicator, timeoutId, dtimers, scoped, dom,
                 hist, acts, lastEvent, sinceEv, lastEvTrigger, served, burst>>

\* The instance with the configuration of the README's example in a page
\* with one button (constructor, lines 61-80).
InitEdit ==
  /\ page = <<"btnA">>
  /\ connected = FALSE
  /\ triggers = <<>>
  /\ triggerInits = <<>>
  /\ triggerIntersects = <<>>
  /\ bound = {}
  /\ listeners = EmptyBag
  /\ observer = [on |-> FALSE, observed |-> {}]
  /\ loading = FALSE
  /\ loadingElement = NULL
  /\ indicator = FALSE
  /\ timeoutId = NULL
  /\ dtimers = {}
  /\ scopedAttr = TRUE
  /\ scoped = scopedAttr
  /\ config = DefaultConfig
  /\ edited = {}
  /\ renderUrl \in RenderUrls
  /\ trace = <<>>
  /\ dom = [e \in DestInside \cup DestOutside |-> <<OldNode>>]
  /\ hist = [url |-> "/", pushed |-> 0, title |-> "Home"]
  /\ acts = <<>>
  /\ lastEvent = "none"
  /\ sinceEv = 0
  /\ lastEvTrigger = NULL
  /\ served = "none"
  /\ lifeEvent = "none"
  /\ burst = "none"

\* The instance is attached, its button is clicked, scripts change
\* attributes while the click waits in the debounce gate, and responses
\* arrive.
NextEdit ==
  \/ Attach
  \/ \E t \in AllTriggers : DOMEvent(t)
  \/ \E tm \in dtimers : DebounceFires(tm)
  \/ Tick
  \/ \E a \in 1..MaxActs : FetchResolves(a)
  \/ \E name \in {"update-url", "update-title"} :
       \E v \in UrlValues \cup TitleValues : AttributeChanged(name, v)
  \/ \E t \in AllTriggers : EditTrigger(t)
  \/ \E v \in RenderUrls : SetRenderUrl(v)

SpecEdit == InitEdit /\ [][NextEdit]_vars

\* The instance is attached and detached, its button is clicked, responses
\* arrive and timeout timers fire.
NextSettings ==
  \/ Attach
  \/ Detach
  \/ \E t \in AllTriggers : DOMEvent(t)
  \/ \E tm \in dtimers : DebounceFires(tm)
  \/ Tick
  \/ \E a \in 1..MaxActs : FetchResolves(a)
  \/ \E a \in 1..MaxActs : TimeoutFires(a)

SpecSettings == InitSettings /\ [][NextSettings]_vars

\* The same with the browser's timers: a timeout timer that has been set
\* and is next in line fires eventually. No request has to settle.
SpecTimers ==
  /\ InitSettings
  /\ [][NextSettings]_vars
  /\ \A a \in 1..MaxActs : WF_vars(TimeoutFires(a))

\* The values of updateMode in the drawn descriptors: the five spellings the
\* switch of _updateSection knows, and an absent field.
PatchModes == {"after", "append", "before", "prepend", "replace", UNDEF}

\* The drawn descriptors: valid ones (_isValidUpdates), with a destination
\* that is on the page or not.
PatchDescs ==
  {Desc(sec, d, m, UNDEF) : sec \in {"s1", "s2"}, d \in {"#d1", "#gone"}, m \in PatchModes}

\* The drawn `updates` lists: one to MaxBatch descriptors.
Batches == UNION {[1..n -> PatchDescs] : n \in 1..MaxBatch}

\* The instance with the activation of the trigger `batch` awaiting its
\* request: attached, the listener's debounce timer has fired, resolution
\* and validation have passed (lines 143-176), the loading flag is set (line
\* 178) and the request is in flight (lines 180-183). The destination #d1
\* holds two children.
InitPatch ==
  /\ page = <<"batch">>
  /\ connected = TRUE
  /\ triggers = <<"batch">>
  /\ triggerInits = <<>>
  /\ triggerIntersects = <<>>
  /\ bound = {"batch"}
  /\ listeners = SetToBag({"batch"})
  /\ observer = [on |-> FALSE, observed |-> {}]
  /\ loading = TRUE
  /\ loadingElement = LoadingSelector
  /\ indicator = TRUE
  /\ timeoutId = "id"
  /\ dtimers = {}
  /\ scopedAttr = TRUE
  /\ scoped = scopedAttr
  /\ config = DefaultConfig
  /\ edited = {}
  /\ renderUrl = NULL
  /\ trace = <<>>
  /\ dom = [e \in DestInside \cup DestOutside |->
              IF e = "#d1" THEN <<OldNode, Node(0, "old", "second")>> ELSE <<OldNode>>]
  /\ hist = [url |-> "/", pushed |-> 0, title |-> "Home"]
  /\ \E b \in Batches :
       acts = << [trigger |-> "batch", source |-> "listener", updates |-> b,
                  sections |-> Dedup([i \in 1..Len(b) |-> b[i].section]),
                  won |-> "none", outcomes |-> <<>>, complete |-> FALSE,
                  wrote |-> FALSE, rejected |-> FALSE, pc |-> "awaiting",
                  fetch |-> "pending",
                  url |-> BuildUrl(Dedup([i \in 1..Len(b) |-> b[i].section]),
                                   RenderUrlAttr("batch"), renderUrl),
                  timer |-> "pending", log |-> <<EvStarted, "fetch">>] >>
  /\ lastEvent = EvStarted
  /\ sinceEv = DebounceTime
  /\ lastEvTrigger = "batch"
  /\ served = "once"
  /\ lifeEvent = EvInit
  /\ burst = "single"

\* The request of the activation settles with a response.
NextPatch == \E a \in 1..MaxActs : FetchResolves(a)

SpecPatch == InitPatch /\ [][NextPatch]_vars

\* ------------------------------------------------------------------------
\* Properties
\* ------------------------------------------------------------------------

Acts == 1..Len(acts)

Done(a) == acts[a].pc = "done"

\* how often e occurs in the log
CountIn(log, e) == Cardinality({i \in 1..Len(log) : log[i] = e})

\* how often activation a has logged e
Count(a, e) == CountIn(acts[a].log, e)

InLog(a, e) == Count(a, e) > 0

\* the descriptor outcomes that inserted the fetched element
Inserted == {"appended", "prepended", "replaced"}

\* activation a has put an element into some destination
Patched(a) ==
  \/ \E k \in 1..Len(acts[a].outcomes) : acts[a].outcomes[k] \in Inserted
  \/ \E e \in DOMAIN dom : \E i \in 1..Len(dom[e]) : dom[e][i].act = a

\* C1: after an activation that ended in an error has finished and no other
\* activation of the instance is in flight, the loading flag is false and the
\* last of the started/ended events is `ended`.
C1_NoErrorLeavesLoading ==
  ((\A a \in Acts : Done(a)) /\ (\E a \in Acts : InLog(a, EvError)))
    => (~loading /\ lastEvent = EvEnded)

\* C2: every activation that issues a request has dispatched `started` as its
\* last event before the request, and when it is over its last event is
\* `ended`, under any interleaving with other activations.
C2_StartedBeforeFetchEndedAfter ==
  \A a \in Acts :
    InLog(a, "fetch") =>
      /\ acts[a].log[1] = EvStarted
      /\ Done(a) => acts[a].log[Len(acts[a].log)] = EvEnded

\* C3: an activation that is over has dispatched as many `started` events as
\* `ended` events, whichever path it took.
C3_StartedEqualsEnded ==
  \A a \in Acts : Done(a) => Count(a, EvStarted) = Count(a, EvEnded)

\* C4: an activation in which a step from resolution through patching failed
\* has dispatched the error event; in particular one whose patch step threw
\* for a descriptor (destination not found, fragment lacking the section).
C4_ErrorEventOnAnyFailure ==
  \A a \in Acts :
    (Done(a) /\ \E k \in 1..Len(acts[a].outcomes) : acts[a].outcomes[k] = "threw")
      => InLog(a, EvError)

\* C5: an activation has written the history or the title only if its
\* request won the race and every descriptor of its batch was patched into
\* its destination.
C5_HistoryOnlyOnFullSuccess ==
  \A a \in Acts :
    acts[a].wrote =>
      /\ acts[a].won = "fetch"
      /\ \A k \in 1..Len(acts[a].updates) :
           k <= Len(acts[a].outcomes) /\ acts[a].outcomes[k] \in Inserted

\* C6: an activation whose timeout timer fired before its request settled
\* dispatches the error event, and never patches a destination nor writes the
\* history, also after the request has resolved later.
C6_TimeoutNeverPatches ==
  \A a \in Acts :
    acts[a].won = "timer" =>
      /\ Count(a, EvError) = 1
      /\ ~InLog(a, "patch")
      /\ ~Patched(a)
      /\ ~acts[a].wrote

\* an activation timed out and its request resolved afterwards
C6_Witness ==
  \E a \in Acts :
    acts[a].won = "timer" /\ acts[a].fetch = "resolved" /\ InLog(a, EvError)

\* the step starts an activation through the debounce timer
StartsListenerActivation ==
  /\ Len(acts') = Len(acts) + 1
  /\ acts'[Len(acts')].source = "listener"

\* the trigger's attributes resolve to a valid batch of descriptors
ValidConfig(t) == ~Resolve(Attrs(t), TRUE).threw

\* C7: the DOM events of a burst on a bound trigger result in exactly one
\* activation, started one debounce interval after the last event of the
\* burst, and that activation issues exactly one request (when the trigger's
\* attributes resolve): at most one debounce timer is pending, it is due
\* DebounceTime after the last event, no event is served twice, and the
\* activation starts when exactly DebounceTime has passed since the last event.
C7_BurstOneActivation ==
  [][ /\ Cardinality(dtimers') <= 1
      /\ served' # "twice"
      /\ served' = "pending" =>
            \E tm \in dtimers' : tm.rem = DebounceTime - sinceEv'
      /\ StartsListenerActivation =>
            /\ served = "pending"
            /\ sinceEv = DebounceTime
            /\ CountIn(acts'[Len(acts')].log, "fetch") <= 1
            /\ ValidConfig(acts'[Len(acts')].trigger) =>
                 CountIn(acts'[Len(acts')].log, "fetch") = 1
    ]_vars

\* a burst of several events on one trigger has been served by one activation
C7_Witness ==
  /\ served = "once"
  /\ burst = "same"
  /\ \E a \in Acts :
       /\ acts[a].source = "listener"
       /\ acts[a].trigger = lastEvTrigger
       /\ Count(a, "fetch") = 1

\* C8: the debounce gate is one timer per instance: when events from
\* different bound triggers arrive within the debounce window, the only
\* pending timer is the one of the trigger that fired last, and the
\* activation the timer starts is the one of that trigger.
C8_OneTimerPerInstance ==
  [][ /\ \A tm \in dtimers' : tm.trigger = lastEvTrigger'
      /\ StartsListenerActivation =>
            /\ acts'[Len(acts')].trigger = lastEvTrigger
            /\ dtimers' = {}
    ]_vars

\* events from several triggers fell into one debounce window and one
\* activation, of the last trigger, has started
C8_Witness ==
  /\ served = "once"
  /\ burst = "mixed"
  /\ dtimers = {}
  /\ \E a \in Acts : acts[a].source = "listener" /\ acts[a].trigger = lastEvTrigger
  /\ \A a \in Acts : acts[a].source = "listener" => acts[a].trigger = lastEvTrigger

\* C9: an activation whose structured `updates` attribute lists two
\* descriptors of two distinct sections, and whose request won the race with
\* a response that holds both fragments, has issued exactly one request, for
\* both sections, and has put the fetched element into both destinations.
C9_TwoDescriptorsPatchBoth ==
  \A a \in Acts :
    ( /\ Done(a)
      /\ Attrs(acts[a].trigger).updates.kind = "array"
      /\ Len(acts[a].updates) = 2
      /\ acts[a].updates[1].section # acts[a].updates[2].section
      /\ acts[a].won = "fetch"
      /\ acts[a].complete )
    => /\ Count(a, "fetch") = 1
       /\ Range(acts[a].sections) = {acts[a].updates[1].section, acts[a].updates[2].section}
       /\ Len(acts[a].outcomes) = 2
       /\ \A k \in 1..2 : acts[a].outcomes[k] \in Inserted

\* C10: a descriptor whose updateMode is null or absent and that was applied
\* with its fragment in the response and its destination on the page has
\* replaced the destination's content, as a descriptor of mode `replace` does.
C10_NullModeIsReplace ==
  \A a \in Acts :
    (Done(a) /\ acts[a].won = "fetch" /\ acts[a].complete) =>
      \A k \in 1..Len(acts[a].updates) :
        ( /\ acts[a].updates[k].updateMode \in {NULL, UNDEF}
          /\ ~Truthy(acts[a].updates[k].query)
          /\ FindElement(acts[a].updates[k].destination, scoped) # NULL
          /\ k <= Len(acts[a].outcomes)
          /\ acts[a].outcomes[k] # "notrun" )
        => acts[a].outcomes[k] = "replaced"

\* C13: an attach that discovers no trigger of any of the three categories
\* leaves the instance inert: no listener is bound, no intersection observer
\* exists, no loading element is looked up, the init event has never been
\* dispatched and no activation has started.
C13_NoTriggerStaysInert ==
  page = <<>> =>
    /\ bound = {}
    /\ listeners = EmptyBag
    /\ ~observer.on
    /\ loadingElement = NULL
    /\ lifeEvent # EvInit
    /\ acts = <<>>
    /\ dtimers = {}

\* the instance is attached to a page without triggers
C13_Witness == page = <<>> /\ connected

\* C14: while the instance is detached no activation begins: every step that
\* ends in a detached state (the detach itself and every step until the next
\* attach) starts no activation and leaves no debounce timer pending, no
\* listener on any element and no observed element.
C14_NoActivationWhileDetached ==
  [][ ~connected' =>
        /\ Len(acts') = Len(acts)
        /\ dtimers' = {}
        /\ listeners' = EmptyBag
        /\ ~observer'.on /\ observer'.observed = {}
    ]_vars

\* a detach came while a debounce timer was pending
C14_Witness ==
  /\ ~connected
  /\ served = "dropped"
  /\ dtimers = {}

\* C15: the settlement, while the instance is detached, of a request that was
\* in flight at the detach changes no destination element and writes neither
\* the history entry nor the title.
C15_LateResolutionIsNoOp ==
  [][ (~connected /\ ~connected') => (dom' = dom /\ hist' = hist) ]_vars

\* C16: listener bindings do not leak across attach/detach cycles. While the
\* instance is attached the keys of the binding table are the discovered
\* immediate triggers and each of them carries exactly one listener of the
\* instance, and no other element carries one; while it is detached (also
\* with a request in flight) the binding table is empty and no listener of
\* the instance is attached to any element.
C16_ListenersNeverLeak ==
  /\ connected =>
       /\ bound = Range(triggers)
       /\ \A t \in bound : CopiesIn(t, listeners) = 1
       /\ BagToSet(listeners) = bound
  /\ ~connected =>
       /\ bound = {}
       /\ listeners = EmptyBag

\* the instance has been attached, detached with a request in flight, and
\* attached again
C16_Witness ==
  /\ connected
  /\ Len(acts) = 2
  /\ acts[1].source = "init" /\ acts[2].source = "init"
  /\ acts[1].fetch = "pending"
  /\ CopiesIn("btnA", listeners) = 1

\* C17: detach is idempotent: a second run of disconnectedCallback right
\* after the first does not throw and leaves the binding table, the
\* listeners, the observer, the trigger and loading-element references and
\* the timers as the first run left them.
C17_DetachIdempotent ==
  LET once == DisconnectedCallback(InstanceRefs)
      twice == DisconnectedCallback(once)
  IN  /\ ~once.threw
      /\ ~twice.threw
      /\ twice = once

\* an attached instance with a bound listener, a pending debounce timer and
\* an observer, all of which the first detach releases
C17_Witness ==
  /\ connected
  /\ bound # {}
  /\ dtimers # {}
  /\ observer.on
  /\ DisconnectedCallback(InstanceRefs) # InstanceRefs
  /\ DisconnectedCallback(InstanceRefs).dtimers = {}

\* a string with at least one character
NonEmptyString(v) == IsString(v) /\ v # ""

\* C12: validation rejects every batch with a descriptor whose section or
\* destination is not a non-empty string before any request is issued: an
\* activation that has issued its request has only descriptors whose section
\* and destination are non-empty strings.
C12_InvalidBatchRejected ==
  \A a \in Acts : InLog(a, "fetch") =>
    \A k \in 1..Len(acts[a].updates) :
      /\ NonEmptyString(acts[a].updates[k].section)
      /\ NonEmptyString(acts[a].updates[k].destination)

\* C18: an instance whose `scoped` attribute is true or unset never patches
\* an element outside its own subtree.
C18_ScopedNeverPatchesOutside ==
  scopedAttr => \A e \in DestOutside : dom[e] = <<OldNode>>

\* C19: an instance configured with scoped=false discovers and binds the
\* immediate triggers of the whole document at attach, also those outside
\* its own markup.
C19_UnscopedDiscoversDocument ==
  (connected /\ ~scopedAttr) =>
    \A t \in Range(page) : Attrs(t).marker = "trigger" => t \in bound

\* the step is the continuation of activation a after its request resolved
\* first
PatchStep(a) ==
  /\ a \in Acts
  /\ acts[a].pc = "awaiting"
  /\ acts'[a].pc = "done"
  /\ acts'[a].won = "fetch"

\* descriptor k is the only one of the batch of activation a that names its
\* destination
Alone(a, k) ==
  \A j \in 1..Len(acts[a].updates) :
    j # k => acts[a].updates[j].destination # acts[a].updates[k].destination

\* n is the element fetched by activation a for the section sec
Fetched(n, a, sec) == n.act = a /\ n.sec = sec

\* C11: patching by mode. When the response holds the fragments and the
\* destination of a descriptor exists, the descriptor inserts the fetched
\* element: with `append` or `after` the prior children stay, in order, and
\* the element is the last child; with `prepend` or `before` they stay and
\* the element is the first child; with `replace` the element is the only
\* child.
C11_PatchByMode ==
  [][ \A a \in 1..MaxActs : PatchStep(a) =>
        \A k \in 1..Len(acts[a].updates) :
          LET d == acts[a].updates[k]
              D == d.destination
              o == acts'[a].outcomes[k]
              n == Len(dom[D])
          IN  ( /\ Alone(a, k)
                /\ o # "notrun"
                /\ acts'[a].complete
                /\ FindElement(D, scoped) # NULL ) =>
                /\ d.updateMode \in {"after", "append"} =>
                     /\ o = "appended"
                     /\ Len(dom'[D]) = n + 1
                     /\ SubSeq(dom'[D], 1, n) = dom[D]
                     /\ Fetched(dom'[D][n + 1], a, d.section)
                /\ d.updateMode \in {"before", "prepend"} =>
                     /\ o = "prepended"
                     /\ Len(dom'[D]) = n + 1
                     /\ SubSeq(dom'[D], 2, n + 1) = dom[D]
                     /\ Fetched(dom'[D][1], a, d.section)
                /\ d.updateMode = "replace" =>
                     /\ o = "replaced"
                     /\ Len(dom'[D]) = 1
                     /\ Fetched(dom'[D][1], a, d.section)
    ]_vars

\* a descriptor of mode `before` has put the fetched element in front of
\* the two children of #d1
C11_Witness ==
  /\ Len(acts) = 1
  /\ Done(1)
  /\ Len(acts[1].updates) = 1
  /\ acts[1].updates[1].updateMode = "before"
  /\ acts[1].outcomes = <<"prepended">>
  /\ Len(dom["#d1"]) = 3
  /\ Fetched(dom["#d1"][1], 1, acts[1].updates[1].section)
  /\ dom["#d1"][2] = OldNode

\* C20: the patch step is sequential and not transactional: when descriptor
\* k fails, the descriptors before k have run, the descriptors after k are
\* not run, and every destination that no descriptor before k names is left
\* as it was, the one of descriptor k included.
C20_FailureAbortsRest ==
  [][ \A a \in 1..MaxActs : PatchStep(a) =>
        \A k \in 1..Len(acts[a].updates) :
          acts'[a].outcomes[k] = "threw" =>
            /\ \A j \in 1..(k - 1) : acts'[a].outcomes[j] \notin {"threw", "notrun"}
            /\ \A j \in (k + 1)..Len(acts[a].updates) : acts'[a].outcomes[j] = "notrun"
            /\ \A e \in DOMAIN dom :
                 (\A j \in 1..(k - 1) : acts[a].updates[j].destination # e) =>
                   dom'[e] = dom[e]
    ]_vars

\* C21: an activation whose request failed (transport failure, non-success
\* status, or a body that is no JSON) has dispatched exactly one error event
\* once it is over, has run no patch step, has put no element into any
\* destination and has written no history.
C21_FailedRequestOneError ==
  \A a \in Acts : acts[a].fetch = "rejected" =>
    /\ Done(a)
    /\ Count(a, EvError) = 1
    /\ ~InLog(a, "patch")
    /\ ~Patched(a)
    /\ ~acts[a].wrote

\* the request of an activation failed before its timeout timer fired
C21_Witness ==
  \E a \in Acts :
    /\ acts[a].fetch = "rejected"
    /\ acts[a].won = "fetch"
    /\ acts[a].timer = "pending"
    /\ acts[a].log[Len(acts[a].log) - 1] = EvError

\* The `updates` attribute of the trigger is present and yields no list of
\* descriptors: the JSON is malformed, its value is no array, or an item is null.
Unparsed(at) ==
  \/ at.updates.kind \in {"malformed", "nonarray"}
  \/ /\ at.updates.kind = "array"
     /\ \E i \in 1..Len(at.updates.items) : at.updates.items[i].isa = "null"

\* the attribute value v is set and not empty
Has(v) == v # NULL /\ v # ""

\* C22: an `updates` attribute that fails to parse is not fatal: with the
\* section and destination attributes set, the activation requests that one
\* section for that one destination, with no error event before the request;
\* with neither attribute set and no enclosing section, the activation
\* dispatches one error event and requests nothing.
C22_UnparsedFallsBack ==
  \A a \in Acts :
    LET at == Attrs(acts[a].trigger)
    IN  Unparsed(at) =>
          /\ (Has(at.section) /\ Has(at.destination)) =>
               /\ Len(acts[a].updates) = 1
               /\ acts[a].updates[1].section = at.section
               /\ acts[a].updates[1].destination = at.destination
               /\ acts[a].sections = <<at.section>>
               /\ acts[a].log[1] # EvError
               /\ acts[a].log[2] = "fetch"
               /\ acts[a].fetch # "none"
          /\ (~Has(at.section) /\ ~Has(at.destination) /\ at.closest = NULL) =>
               /\ Count(a, EvError) = 1
               /\ ~InLog(a, "fetch")
               /\ acts[a].fetch = "none"
               /\ acts[a].updates = <<>>

\* witness: a trigger with malformed `updates` and both attributes has
\* started its request, and one with malformed `updates` and nothing else
\* has failed
C22_Witness ==
  /\ \E a \in Acts : acts[a].trigger = "malA" /\ InLog(a, "fetch")
  /\ \E a \in Acts : acts[a].trigger = "malN" /\ InLog(a, EvError)

\* The trigger has no list of descriptors: no `updates` attribute, one that
\* does not parse, or an empty array.
NoStructured(at) ==
  \/ at.updates.kind = "absent"
  \/ Unparsed(at)
  \/ at.updates.kind = "array" /\ at.updates.items = <<>>

FirstAt(ds, x) == CHOOSE i \in 1..Len(ds) : ds[i].section = x /\ \A j \in 1..(i - 1) : ds[j].section # x

\* C24: for a trigger whose `updates` attribute is a list of at least one
\* descriptor, the sections requested are the section fields of the
\* descriptors, each once, in the order of their first appearance.
C24_SectionsDedupedInOrder ==
  \A a \in Acts :
    LET at == Attrs(acts[a].trigger)
        ds == at.updates.items
        ss == acts[a].sections
    IN  (at.updates.kind = "array" /\ Len(ds) > 0 /\ ~Unparsed(at) /\ InLog(a, "fetch")) =>
          /\ acts[a].updates = ds
          /\ {ss[i] : i \in 1..Len(ss)} = {ds[i].section : i \in 1..Len(ds)}
          /\ \A i, j \in 1..Len(ss) : i # j => ss[i] # ss[j]
          /\ \A i, j \in 1..Len(ss) : i < j => FirstAt(ds, ss[i]) < FirstAt(ds, ss[j])

\* witness: the trigger whose three descriptors name s2, s1, s2 requests
\* s2 then s1
C24_Witness ==
  \E a \in Acts : /\ acts[a].trigger = "dup"
                  /\ Len(acts[a].updates) = 3
                  /\ acts[a].sections = <<"s2", "s1">>
                  /\ InLog(a, "fetch")

\* the parameters of the URL u other than `sections`, in order
OtherParams(u) == SelectSeq(u.params, LAMBDA p : p.k # "sections")

\* the values of the parameters of the URL u named `sections`, in order
SectionsParams(u) == [i \in 1..Len(SelectSeq(u.params, LAMBDA p : p.k = "sections")) |->
                        SelectSeq(u.params, LAMBDA p : p.k = "sections")[i].v]

\* the base of the request of the trigger t: its render-url, else the
\* instance's, else the path of the page
BaseOf(t) ==
  IF Has(RenderUrlAttr(t)) THEN RenderUrlAttr(t)
  ELSE IF Has(renderUrl) THEN renderUrl
  ELSE PagePath

\* C25: the URL requested by an activation has the path of the trigger's
\* render-url if set, else of the instance's if set, else of the page; it
\* carries exactly one `sections` parameter, the section names joined by
\* commas (outer whitespace trimmed); and the other parameters of the base
\* URL are kept, in order.
C25_RequestUrl ==
  \A a \in Acts : InLog(a, "fetch") =>
    LET u == acts[a].url
        base == ParseUrl(BaseOf(acts[a].trigger))
    IN  /\ u.path = base.path
        /\ SectionsParams(u) = <<Trim(Join(acts[a].sections))>>
        /\ OtherParams(u) = OtherParams(base)
        /\ acts[a].trigger = "btnR" =>
             /\ u.path = "/search"
             /\ u.params = <<Param("q", "x"), Param("sections", "s1"), Param("page", "2")>>
        /\ acts[a].trigger = "dup" =>
             /\ SectionsParams(u) = <<"s2,s1">>
             /\ renderUrl = "/collections/all?sort=new" =>
                  u = [path |-> "/collections/all",
                       params |-> <<Param("sort", "new"), Param("sections", "s2,s1")>>]
             /\ renderUrl = NULL => u = [path |-> "/products/a",
                                         params |-> <<Param("sections", "s2,s1")>>]

\* witness: the instance has a render-url, one trigger overrides it with a
\* URL that carries parameters, another does not override it
C25_Witness ==
  /\ renderUrl = "/alt"
  /\ \E a \in Acts : acts[a].trigger = "btnR" /\ acts[a].url.path = "/search"
                     /\ Len(acts[a].url.params) = 3
  /\ \E a \in Acts : acts[a].trigger = "dup" /\ acts[a].url.path = "/alt"

\* the step starts an activation from the observer callback
IntersectStep == /\ Len(acts') = Len(acts) + 1
                 /\ acts'[Len(acts')].source = "intersect"

\* the intersect-once attribute of the trigger t says false
ExplicitlyFalse(t) ==
  /\ Attrs(t).intersectOnce # NULL
  /\ ToLowerCase(Attrs(t).intersectOnce) = "false"

\* C26: an intersection trigger whose intersect-once is anything but false
\* is no longer observed once the observer callback has activated it.
C26_UnobservedUnlessFalse ==
  [][IntersectStep =>
       LET t == acts'[Len(acts')].trigger
       IN  ~ExplicitlyFalse(t) => t \notin observer'.observed]_vars

\* C27: a step of the observer callback starts the activation at once and
\* leaves the debounce gate alone: the pending timers, the timer handle and
\* the time since the last DOM event are unchanged and no trigger event is
\* consumed; and an element whose intersect-once says false is still
\* observed after it.
C27_IntersectBypassesDebounce ==
  [][IntersectStep =>
       LET t == acts'[Len(acts')].trigger
       IN  /\ t \in observer.observed
           /\ dtimers' = dtimers
           /\ timeoutId' = timeoutId
           /\ sinceEv' = sinceEv
           /\ served' = served
           /\ acts'[Len(acts')].log # <<>>
           /\ ExplicitlyFalse(t) => t \in observer'.observed]_vars

\* witness: the element with intersect-once="false" was activated twice by
\* the observer while a debounce timer of the button was pending, and is
\* still observed
C27_Witness ==
  /\ Len(acts) = 2
  /\ \A a \in Acts : acts[a].trigger = "lazyR" /\ acts[a].source = "intersect"
  /\ \E tm \in dtimers : tm.trigger = "btnA" /\ tm.rem < DebounceTime
  /\ "lazyR" \in observer.observed

\* the step is a connectedCallback that passed its validation
AttachStep == ~connected /\ connected' /\ trace' # <<>>

\* the position of the first e in the sequence xs, 0 if there is none
IndexOf(xs, e) ==
  IF \E i \in 1..Len(xs) : xs[i] = e
  THEN CHOOSE i \in 1..Len(xs) : xs[i] = e /\ \A j \in 1..(i - 1) : xs[j] # e
  ELSE 0

\* C28: a successful attach starts one activation for each trigger-init
\* element, in document order, each with its own request, all after the
\* init event, and sets no debounce timer.
C28_InitTriggersOnceEach ==
  [][AttachStep =>
       LET ini == SelectSeq(page, LAMBDA t : Attrs(t).marker = "trigger-init")
           n == Len(ini)
       IN  /\ Len(acts') = Len(acts) + n
           /\ \A i \in 1..n :
                LET act == acts'[Len(acts) + i]
                IN  /\ act.trigger = ini[i]
                    /\ act.source = "init"
                    /\ CountIn(act.log, "fetch") = 1
                    /\ act.fetch = "pending"
                    /\ act.timer = "pending"
           /\ \A a \in 1..Len(acts) : acts'[a] = acts[a]
           /\ CountIn(trace', "fetch") = n
           /\ \A i \in 1..Len(trace') :
                trace'[i] = "fetch" => IndexOf(trace', EvInit) \in 1..(i - 1)
           /\ dtimers' = dtimers
           /\ timeoutId' = timeoutId]_vars

\* witness: the attach of the page with two trigger-init elements has
\* started their two requests, to different URLs
C28_Witness ==
  /\ connected
  /\ Len(acts) = 2
  /\ acts[1].trigger = "auto" /\ acts[1].source = "init" /\ acts[1].fetch = "pending"
  /\ acts[2].trigger = "autoB" /\ acts[2].source = "init" /\ acts[2].fetch = "pending"
  /\ acts[1].url # acts[2].url
  /\ CountIn(trace, "fetch") = 2

\* the step is a disconnectedCallback
DetachStep == connected /\ ~connected'

\* C29: a successful attach dispatches the init event exactly once, before
\* every started, ended and error event of the activations it starts; a
\* detach dispatches the destroying event exactly once, as its first step,
\* before the debounce timer is cleared, any listener removed or the observer
\* disconnected.
C29_InitFirstDestroyFirst ==
  [][/\ AttachStep =>
          /\ CountIn(trace', EvInit) = 1
          /\ lifeEvent' = EvInit
          /\ \A i \in 1..Len(trace') :
               trace'[i] \in {EvStarted, EvEnded, EvError} =>
                 IndexOf(trace', EvInit) \in 1..(i - 1)
     /\ DetachStep =>
          /\ CountIn(trace', EvDestroy) = 1
          /\ lifeEvent' = EvDestroy
          /\ trace'[1] = EvDestroy
          /\ Len(trace') = 1 + (IF Truthy(timeoutId) THEN 1 ELSE 0)
                             + Cardinality(bound) + (IF observer.on THEN 1 ELSE 0)]_vars

\* witness: the second attach of the page with a trigger-init element and a
\* button: the init event, then the events of the started activation, the
\* debounce handle having been set before the detach in between
C29_Witness ==
  /\ connected
  /\ Len(acts) = 2
  /\ \A a \in Acts : acts[a].source = "init"
  /\ timeoutId # NULL
  /\ IndexOf(trace, EvInit) > 0
  /\ \E i \in 1..Len(trace) : i > IndexOf(trace, EvInit) /\ trace[i] \in {EvStarted, EvEnded}

\* the step ends the race of activation a with a rejection: its request
\* failed or its timeout timer fired while it was waiting
RejectStep(a) ==
  /\ acts[a].pc = "awaiting"
  /\ acts'[a].pc = "done"
  /\ acts'[a].won \in {"timer", "fetch"}
  /\ acts'[a].fetch # "resolved"

\* C30: the races of concurrent activations are independent. A step in which
\* the request of one activation fails or its timeout fires changes no other
\* activation and no destination; and an activation whose response arrives
\* while it is waiting is patched and gets no error event, whatever has
\* happened to the others.
C30_IndependentRaces ==
  [][\A a \in Acts :
       /\ RejectStep(a) =>
            /\ \A b \in Acts \ {a} : acts'[b] = acts[b]
            /\ dom' = dom
            /\ hist' = hist
       /\ (acts[a].pc = "awaiting" /\ acts[a].fetch = "pending"
             /\ acts'[a].fetch = "resolved") =>
            /\ acts'[a].won = "fetch"
            /\ CountIn(acts'[a].log, "patch") = 1
            /\ CountIn(acts'[a].log, EvError) = 0
            /\ Len(acts'[a].outcomes) = Len(acts[a].updates)]_vars

\* witness: two activations were in flight together; the first timed out
\* and the second, whose response came afterwards, has its element in the
\* page and no error event
C30_Witness ==
  /\ Len(acts) = 2
  /\ acts[1].won = "timer" /\ Count(1, EvError) = 1 /\ acts[1].fetch = "pending"
  /\ acts[2].won = "fetch" /\ acts[2].fetch = "resolved"
  /\ Count(2, EvError) = 0
  /\ \E e \in DOMAIN dom : \E i \in 1..Len(dom[e]) : dom[e][i].act = 2
  /\ acts[2].outcomes # <<>> /\ \A k \in 1..Len(acts[2].outcomes) : acts[2].outcomes[k] \in Inserted

\* C31: with a loading indicator configured, the indicator carries the
\* loading class exactly when the loading flag is true.
C31_IndicatorFollowsLoading ==
  Truthy(LoadingSelector) => (indicator <=> loading)

\* C32: the handler of an activation always completes normally: no
\* activation ends with an error thrown out of _handleTrigger.
C32_HandlerNeverThrows ==
  \A a \in Acts : ~acts[a].rejected

\* the step is the continuation of activation a after its response arrived,
\* the response held every requested section, every descriptor inserted its
\* element and no error event was dispatched
SuccessStep(a) ==
  /\ PatchStep(a)
  /\ acts'[a].complete
  /\ \A k \in 1..Len(acts'[a].outcomes) : acts'[a].outcomes[k] \in Inserted
  /\ CountIn(acts'[a].log, EvError) = 0

\* C33: the history update of a successful activation. With an update-url,
\* history-mode add or push pushes one entry for it and replace (the value of
\* an unset attribute) replaces the current entry with it; without an
\* update-url the entry and the number of entries stay; the title becomes the
\* update-title if there is one and stays otherwise.
C33_HistoryByMode ==
  [][\A a \in Acts : SuccessStep(a) =>
       /\ (Truthy(config.updateUrl) /\ config.historyMode \in {"add", "push"}) =>
            hist'.url = config.updateUrl /\ hist'.pushed = hist.pushed + 1
       /\ (Truthy(config.updateUrl) /\ config.historyMode = "replace") =>
            hist'.url = config.updateUrl /\ hist'.pushed = hist.pushed
       /\ ~Truthy(config.updateUrl) =>
            hist'.url = hist.url /\ hist'.pushed = hist.pushed
       /\ Truthy(config.updateTitle) => hist'.title = config.updateTitle
       /\ ~Truthy(config.updateTitle) => hist'.title = hist.title]_vars

\* witness: with history-mode push and no update-title, two successful
\* activations have pushed two entries and left the title
C33_Witness ==
  /\ config.historyMode = "push"
  /\ config.updateTitle = NULL
  /\ Len(acts) = 2
  /\ \A a \in Acts : Done(a) /\ acts[a].wrote /\ Count(a, EvError) = 0
  /\ hist = [url |-> "/next", pushed |-> 2, title |-> "Home"]

\* the step starts an activation from the debounce timer of a DOM event
DebouncedStart == /\ Len(acts') = Len(acts) + 1
                  /\ acts'[Len(acts')].source = "listener"

\* C34: configuration is read when the activation runs. The activation that
\* a debounce timer starts holds the descriptor and requests the URL given by
\* the trigger's attributes and the instance's render-url as they are at that
\* step, so with the values a script set while the click was waiting; and the
\* history update of its continuation uses the update-url and update-title
\* as they are then.
C34_ReadAtActivation ==
  [][/\ DebouncedStart =>
          LET act == acts'[Len(acts')]
              t == act.trigger
          IN  IF t \in edited
              THEN /\ act.updates = <<Desc("s2", "#d2", "append", NULL)>>
                   /\ act.sections = <<"s2">>
                   /\ act.url = [path |-> "/alt", params |-> <<Param("sections", "s2")>>]
              ELSE /\ act.updates = <<Desc("s1", "#d1", "replace", NULL)>>
                   /\ act.sections = <<"s1">>
                   /\ act.url.path = ParseUrl(OrElse(renderUrl, PagePath)).path
                   /\ OtherParams(act.url) = ParseUrl(OrElse(renderUrl, PagePath)).params
     /\ \A a \in Acts : SuccessStep(a) =>
          /\ hist'.url = config.updateUrl
          /\ hist'.title = OrElse(config.updateTitle, hist.title)
          /\ \A k \in 1..Len(acts[a].updates) :
               \E i \in 1..Len(dom'[acts[a].updates[k].destination]) :
                 dom'[acts[a].updates[k].destination][i].act = a]_vars

\* witness: while the first click waited, a script changed the button's
\* attributes, the instance's render-url and the update-url; the activation
\* requested s2 from the button's new render-url, appended to #d2 and wrote
\* the new update-url
C34_Witness ==
  /\ Len(acts) = 1
  /\ acts[1].trigger \in edited
  /\ acts[1].source = "listener"
  /\ acts[1].sections = <<"s2">>
  /\ acts[1].url.path = "/alt"
  /\ renderUrl = "/collections/all?sort=new"
  /\ config.updateUrl = "/later"
  /\ hist.url = "/later"
  /\ Len(dom["#d2"]) = 2 /\ dom["#d2"][2].act = 1
  /\ dom["#d1"] = <<OldNode>>

\* how often the activations 1..k of the instance have dispatched e
RECURSIVE Dispatched(_, _)
Dispatched(e, k) == IF k = 0 THEN 0 ELSE Count(k, e) + Dispatched(e, k - 1)

\* C35: the started events dispatched by the instance are as many as the
\* ended events when the loading flag is false and one more when it is true;
\* the last of them is `started` exactly when the flag is true, and before
\* the first of them the flag is false.
C35_StartedEndedAlternate ==
  /\ Dispatched(EvStarted, Len(acts)) =
       Dispatched(EvEnded, Len(acts)) + (IF loading THEN 1 ELSE 0)
  /\ loading <=> lastEvent = EvStarted
  /\ lastEvent = "none" => Dispatched(EvStarted, Len(acts)) = 0

\* witness: two overlapping activations, one of which ended in an error,
\* have dispatched two started and two ended events; the second one's first
\* event was `ended`
C35_Witness ==
  /\ Len(acts) = 2
  /\ \A a \in Acts : Done(a)
  /\ acts[1].log[1] = EvStarted /\ acts[2].log[1] = EvEnded
  /\ \E a \in Acts : Count(a, EvError) = 1
  /\ Dispatched(EvStarted, 2) = 2
  /\ Dispatched(EvEnded, 2) = 2
  /\ ~loading

\* every descriptor of activation a replaces the content of the destination e
ReplacesOnly(a, e) ==
  \A k \in 1..Len(acts[a].updates) :
    /\ acts[a].updates[k].destination = e
    /\ acts[a].updates[k].updateMode = "replace"

\* C36: patches are applied in the order the responses arrive. The step
\* that completes a successful activation in replace mode leaves in its
\* destination the one element of its own response, whichever activation
\* started first and whatever the other activations have put there.
C36_LastResponseWins ==
  [][\A a \in Acts : \A e \in DestInside :
       (SuccessStep(a) /\ ReplacesOnly(a, e)) =>
         /\ Len(dom'[e]) = 1
         /\ dom'[e][1].act = a
         /\ dom'[e][1].sec = acts[a].updates[1].section]_vars

\* witness: two activations of the same button overlapped; the response of
\* the second arrived first, the response of the first arrived last, and
\* the destination holds the element fetched by the first
C36_Witness ==
  /\ Len(acts) = 2
  /\ \A a \in Acts : /\ acts[a].trigger = "btnA"
                     /\ Done(a)
                     /\ acts[a].won = "fetch"
                     /\ acts[a].outcomes = <<"replaced">>
  /\ acts[1].log[1] = EvStarted /\ acts[2].log[1] = EvEnded
  /\ Len(dom["#d1"]) = 1
  /\ dom["#d1"][1].act = 1

\* C37: an activation that waits for the race of its request and its
\* timeout timer eventually finishes, whether or not the request settles.
C37_AwaitingLeadsToDone ==
  \A a \in 1..MaxActs :
    (Len(acts) >= a /\ acts[a].pc = "awaiting") ~> (Len(acts) >= a /\ acts[a].pc = "done")

\* witness: an activation was finished by its timeout timer, with its
\* cleanup toggle, while its request is still unanswered
C37_Witness ==
  \E a \in Acts : /\ Done(a)
                  /\ acts[a].won = "timer"
                  /\ acts[a].fetch = "pending"
                  /\ acts[a].timer = "fired"
                  /\ acts[a].log[Len(acts[a].log)] \in {EvStarted, EvEnded}
                  /\ InLog(a, "fetch")

\* C38: an activation that has dispatched the error event has dispatched it
\* once, has put no element into any destination and has written no history.
C38_ErrorExcludesPatch ==
  \A a \in Acts : InLog(a, EvError) =>
    /\ Count(a, EvError) = 1
    /\ ~Patched(a)
    /\ ~acts[a].wrote

\* the timeout timer of activation a fires after its request has settled
LateTimerStep(a) ==
  /\ Len(acts) >= a
  /\ acts[a].fetch # "pending"
  /\ acts[a].won = "fetch"
  /\ acts[a].timer = "pending"
  /\ acts'[a].timer = "fired"

\* C39: when the timeout timer of an activation fires after the request of
\* that activation has settled, no event is dispatched, the loading flag and
\* the indicator keep their values, and no destination and no history entry
\* changes; the step only marks the timer as fired.
C39_LateTimerNoEffect ==
  [][\A a \in 1..MaxActs : LateTimerStep(a) =>
        /\ acts' = [acts EXCEPT ![a].timer = "fired"]
        /\ loading' = loading
        /\ indicator' = indicator
        /\ lastEvent' = lastEvent
        /\ dom' = dom
        /\ hist' = hist]_vars

C39_Witness ==
  \E a \in Acts :
    /\ acts[a].fetch = "resolved"
    /\ acts[a].won = "fetch"
    /\ acts[a].timer = "fired"
    /\ Patched(a)
    /\ ~InLog(a, EvError)
    /\ acts[a].log[Len(acts[a].log)] = EvEnded

\* the activations a step starts
StartedBy == (Len(acts) + 1)..Len(acts')

\* C40: a step changes the scoping flag only from true to false, and only
\* when it starts an activation of a trigger that has neither a section nor
\* a destination attribute and has an enclosing section; no step, detach and
\* attach included, sets the flag back to true.
C40_ScopedOnlyCleared ==
  [][scoped' # scoped =>
       /\ scoped /\ ~scoped'
       /\ \E a \in StartedBy :
            LET attrs == CurAttrs(acts'[a].trigger)
            IN  /\ attrs.section = NULL
                /\ attrs.destination = NULL
                /\ attrs.closest # NULL]_vars

C40_Witness ==
  /\ scopedAttr
  /\ ~scoped
  /\ ~connected
  /\ \E a \in Acts : acts[a].trigger = "near"
  /\ \E a \in Acts : acts[a].trigger = "lazyS"

====
